---------------------------- MODULE Spec2Model ----------------------------
(***************************************************************************)
(* Billboard-Artists: the collaboration graph engine.                      *)
(*                                                                         *)
(*   backend/scripts/data_processor.py  DataProcessor (extract, build,     *)
(*                                      validate, save with backup)        *)
(*   backend/data_access.py             DataAccessLayer (neighbours, BFS,  *)
(*                                      existence, search, subgraph)       *)
(*   backend/app.py                     update_data / update_data_task,    *)
(*                                      UpdateStatus, the artist endpoints *)
(*   backend/scripts/visualize.py       shrink_graph_degree,               *)
(*                                      shrink_graph_random                *)
(*                                                                         *)
(* A Python str is a sequence of one-character strings, so that strip,     *)
(* lower, split, substring search and the code-point order of sorted() are *)
(* computed and not assumed.  A Python dict is a sequence of <<key, value>>*)
(* pairs in insertion order.                                               *)
(***************************************************************************)
EXTENDS Integers, Sequences, FiniteSets, TLC

VARIABLES
    \* DataProcessor._build_relationship_dicts
    collaborations,     \* dict artist -> dict artist -> int
    songs_to_artists,   \* dict song_key -> list of artists
    rowsRead,           \* the csv rows consumed so far
    lastArtists,        \* the set _extract_artists returned for the last row
    excOrder,           \* iteration order of the EXCEPTIONS set in this process
    \* DataAccessLayer
    dalSongs,           \* DataAccessLayer.songs_to_artists
    call,               \* the last query: [op, name, degree]
    result,             \* what it returned
    \* app.py: UpdateStatus and the background tasks
    is_running, current_step, error, completed,
    tasks,              \* one record per accepted trigger: [pc, dp, build]
    \* the data directory
    cleaned_csv,        \* the rows of data/cleaned.csv
    files,              \* path -> [state, build] for the json files and their backups
    builds,             \* number of builds that passed validation so far
    reader,             \* a loader of the two persisted files
    \* visualize.py: one call of shrink_graph_degree or shrink_graph_random
    heap,               \* the nx.Graph objects, by reference
    frame               \* the call: its arguments, locals and position

vars == <<collaborations, songs_to_artists, rowsRead, lastArtists, excOrder,
          dalSongs, call, result,
          is_running, current_step, error, completed, tasks,
          cleaned_csv, files, builds, reader,
          heap, frame>>

buildVars  == <<collaborations, songs_to_artists, rowsRead, lastArtists, excOrder>>
queryVars  == <<dalSongs, call, result>>
statusVars == <<is_running, current_step, error, completed, tasks>>
diskVars   == <<cleaned_csv, files, builds, reader>>
shrinkVars == <<heap, frame>>

-----------------------------------------------------------------------------
(* Python str *)

\* The characters in use, in code-point order.
AsciiOrder ==
    <<" ", "&", ",", "/",
      "0", "1", "2", "3", "4", "5", "6", "7", "8", "9",
      "A", "B", "C", "D", "E", "F", "G", "H", "I", "J", "K", "L", "M",
      "N", "O", "P", "Q", "R", "S", "T", "U", "V", "W", "X", "Y", "Z",
      "_",
      "a", "b", "c", "d", "e", "f", "g", "h", "i", "j", "k", "l", "m",
      "n", "o", "p", "q", "r", "s", "t", "u", "v", "w", "x", "y", "z">>

CodePointRank == [c \in {AsciiOrder[i] : i \in 1..Len(AsciiOrder)} |->
                     CHOOSE i \in 1..Len(AsciiOrder) : AsciiOrder[i] = c]

Ord(c) == CodePointRank[c]

FirstUpper == Ord("A")
FirstLower == Ord("a")

IsUpper(c) == Ord(c) >= FirstUpper /\ Ord(c) <= Ord("Z")

\* str.lower() on one character
LowerChar(c) == IF IsUpper(c) THEN AsciiOrder[Ord(c) - FirstUpper + FirstLower] ELSE c

\* str.lower()
Lower(s) == [i \in 1..Len(s) |-> LowerChar(s[i])]

IsSpace(c) == c = " "

RECURSIVE LStrip(_)
LStrip(s) == IF s # <<>> /\ IsSpace(Head(s)) THEN LStrip(Tail(s)) ELSE s

RECURSIVE RStrip(_)
RStrip(s) ==
    IF s # <<>> /\ IsSpace(s[Len(s)]) THEN RStrip(SubSeq(s, 1, Len(s) - 1)) ELSE s

\* str.strip()
Strip(s) == RStrip(LStrip(s))

\* s.startswith(p)
StartsWith(s, p) == Len(p) <= Len(s) /\ SubSeq(s, 1, Len(p)) = p

\* s[i:].startswith(p), i counted from 1
MatchAt(s, p, i) == i + Len(p) - 1 <= Len(s) /\ SubSeq(s, i, i + Len(p) - 1) = p

\* p in s
Contains(s, p) == \E i \in 1..(Len(s) + 1) : MatchAt(s, p, i)

\* s < t for two str: code-point lexicographic order
RECURSIVE StrLess(_, _)
StrLess(s, t) ==
    IF t = <<>> THEN FALSE
    ELSE IF s = <<>> THEN TRUE
    ELSE IF Head(s) # Head(t) THEN Ord(Head(s)) < Ord(Head(t))
    ELSE StrLess(Tail(s), Tail(t))

Range(f) == {f[i] : i \in DOMAIN f}

RECURSIVE Flatten(_)
Flatten(ss) == IF ss = <<>> THEN <<>> ELSE Head(ss) \o Flatten(Tail(ss))

-----------------------------------------------------------------------------
(* Python dict: <<key, value>> pairs in insertion order *)

Keys(d) == {d[i][1] : i \in DOMAIN d}

HasKey(d, k) == \E i \in DOMAIN d : d[i][1] = k

Get(d, k) == d[CHOOSE i \in DOMAIN d : d[i][1] = k][2]

\* d.get(k, dflt)
GetOr(d, k, dflt) == IF HasKey(d, k) THEN Get(d, k) ELSE dflt

\* d[k] = v
Put(d, k, v) ==
    IF HasKey(d, k)
    THEN [i \in DOMAIN d |-> IF d[i][1] = k THEN <<k, v>> ELSE d[i]]
    ELSE Append(d, <<k, v>>)

\* list(d.values())
Values(d) == [i \in DOMAIN d |-> d[i][2]]

\* list(d.keys())
KeyList(d) == [i \in DOMAIN d |-> d[i][1]]

-----------------------------------------------------------------------------
(* backend/data_access.py: DataAccessLayer *)

\* connections[other_artist] = connections.get(other_artist, 0) + 1, for each
\* element of occ in turn
RECURSIVE Tally(_, _)
Tally(connections, occ) ==
    IF occ = <<>> THEN connections
    ELSE Tally(Put(connections, Head(occ), GetOr(connections, Head(occ), 0) + 1),
               Tail(occ))

\* The two nested loops over songs_to_artists.items(): the other artists of
\* every song that lists artist_name, in iteration order.
CoAppearances(songs, artist_name) ==
    Flatten([i \in 1..Len(songs) |->
                IF artist_name \in Range(songs[i][2])
                THEN SelectSeq(songs[i][2], LAMBDA other : other # artist_name)
                ELSE <<>>])

\* _get_direct_collaborators_raw
get_direct_collaborators_raw(songs, artist_name) ==
    Tally(<<>>, CoAppearances(songs, Strip(artist_name)))

\* _get_direct_connections counting a collaborator once, not once per song
get_direct_connections_uncounted(songs, artist_name) ==
    LET connections == Tally(<<>>, CoAppearances(songs, Strip(artist_name)))
    IN  [i \in 1..Len(connections) |->
            <<connections[i][1], [count |-> 1, degree |-> 1]>>]

\* _get_direct_connections
get_direct_connections(songs, artist_name) ==
    LET connections == Tally(<<>>, CoAppearances(songs, Strip(artist_name)))
    IN  [i \in 1..Len(connections) |->
            <<connections[i][1], [count |-> connections[i][2], degree |-> 1]>>]

\* BfsVisit adding the count of every later path to a vertex it already found
RECURSIVE BfsVisitSumming(_, _, _)
BfsVisitSumming(items, st, current_degree) ==
    IF items = <<>> THEN st
    ELSE LET collab == Head(items)[1]
             count  == Head(items)[2]
             st2 == IF collab \notin st.visited /\ ~HasKey(st.connections, collab)
                    THEN [st EXCEPT
                            !.connections = Put(@, collab,
                                [count |-> count, degree |-> current_degree + 1]),
                            !.queue = Append(@, <<collab, current_degree + 1>>),
                            !.visited = @ \cup {collab},
                            !.enqueued = Append(@, <<collab, current_degree + 1>>)]
                    ELSE IF HasKey(st.connections, collab)
                    THEN [st EXCEPT
                            !.connections = Put(@, collab,
                                [Get(st.connections, collab) EXCEPT !.count = @ + count])]
                    ELSE st
         IN  BfsVisitSumming(Tail(items), st2, current_degree)

\* The inner for-loop of _get_connections_bfs over direct_collabs.items().
\* st.enqueued and st.expanded only record what the loop did.
RECURSIVE BfsVisit(_, _, _)
BfsVisit(items, st, current_degree) ==
    IF items = <<>> THEN st
    ELSE LET collab == Head(items)[1]
             count  == Head(items)[2]
             st2 == IF collab \notin st.visited /\ ~HasKey(st.connections, collab)
                    THEN [st EXCEPT
                            !.connections = Put(@, collab,
                                [count |-> count, degree |-> current_degree + 1]),
                            !.queue = Append(@, <<collab, current_degree + 1>>),
                            !.visited = @ \cup {collab},
                            !.enqueued = Append(@, <<collab, current_degree + 1>>)]
                    ELSE st
         IN  BfsVisit(Tail(items), st2, current_degree)

\* BfsLoop skipping a dequeued vertex only beyond max_degree (> for >=)
RECURSIVE BfsLoopTooDeep(_, _, _)
BfsLoopTooDeep(songs, max_degree, st) ==
    IF st.queue = <<>> THEN st
    ELSE LET current == Head(st.queue)
             st1 == [st EXCEPT !.queue = Tail(@)]
         IN  IF current[2] > max_degree
             THEN BfsLoopTooDeep(songs, max_degree, st1)
             ELSE BfsLoopTooDeep(songs, max_degree,
                     BfsVisit(get_direct_collaborators_raw(songs, current[1]),
                              [st1 EXCEPT !.expanded = Append(@, current)],
                              current[2]))

\* The while-loop of _get_connections_bfs.
RECURSIVE BfsLoop(_, _, _)
BfsLoop(songs, max_degree, st) ==
    IF st.queue = <<>> THEN st
    ELSE LET current == Head(st.queue)
             st1 == [st EXCEPT !.queue = Tail(@)]
         IN  IF current[2] >= max_degree
             THEN BfsLoop(songs, max_degree, st1)
             ELSE BfsLoop(songs, max_degree,
                     BfsVisit(get_direct_collaborators_raw(songs, current[1]),
                              [st1 EXCEPT !.expanded = Append(@, current)],
                              current[2]))

BfsRun(songs, artist_name, max_degree) ==
    LET name == Strip(artist_name)
    IN  BfsLoop(songs, max_degree,
                [queue |-> <<<<name, 0>>>>, visited |-> {name}, connections |-> <<>>,
                 enqueued |-> <<<<name, 0>>>>, expanded |-> <<>>])

\* _get_connections_bfs
get_connections_bfs(songs, artist_name, max_degree) ==
    BfsRun(songs, artist_name, max_degree).connections

\* get_artist_connections
get_artist_connections(songs, artist_name, degree) ==
    IF degree = 1
    THEN get_direct_connections(songs, artist_name)
    ELSE get_connections_bfs(songs, artist_name, degree)

\* artist_exists
artist_exists(songs, artist_name) ==
    \E i \in 1..Len(songs) : artist_name \in Range(songs[i][2])

\* results[:20]
SearchLimit == 20

\* sort_key ranking an exact match no higher than a prefix match
sort_key_no_exact(artist, query_lower) ==
    LET artist_lower == Lower(artist)
    IN  IF StartsWith(artist_lower, query_lower) THEN <<1, artist>>
        ELSE <<2, artist>>

\* sort_key(artist) in search_artists
sort_key(artist, query_lower) ==
    LET artist_lower == Lower(artist)
    IN  IF artist_lower = query_lower THEN <<0, artist>>
        ELSE IF StartsWith(artist_lower, query_lower) THEN <<1, artist>>
        ELSE <<2, artist>>

\* k1 < k2 for two (int, str) tuples
KeyLess(k1, k2) == k1[1] < k2[1] \/ (k1[1] = k2[1] /\ StrLess(k1[2], k2[2]))

\* list.sort(key=sort_key): a stable sort, here by insertion
InsertByKey(sorted, x, query_lower) ==
    LET key == sort_key(x, query_lower)
        before == {i \in 1..Len(sorted) : ~KeyLess(key, sort_key(sorted[i], query_lower))}
        n == Cardinality(before)
    IN  SubSeq(sorted, 1, n) \o <<x>> \o SubSeq(sorted, n + 1, Len(sorted))

RECURSIVE SortByKey(_, _)
SortByKey(artist_set, query_lower) ==
    IF artist_set = {} THEN <<>>
    ELSE LET x == CHOOSE a \in artist_set : TRUE
         IN  InsertByKey(SortByKey(artist_set \ {x}, query_lower), x, query_lower)

\* Every name of the song index
AllArtists(songs) == UNION {Range(songs[i][2]) : i \in 1..Len(songs)}

\* search_artists returning results instead of results[:20]
search_artists_uncapped(songs, query) ==
    IF Strip(query) = <<>> THEN <<>>
    ELSE LET query_lower == Lower(query)
             artist_set == {a \in AllArtists(songs) : Contains(Lower(a), query_lower)}
         IN  SortByKey(artist_set, query_lower)

\* search_artists
search_artists(songs, query) ==
    IF Strip(query) = <<>> THEN <<>>
    ELSE LET query_lower == Lower(query)
             artist_set == {a \in AllArtists(songs) : Contains(Lower(a), query_lower)}
             results == SortByKey(artist_set, query_lower)
         IN  SubSeq(results, 1,
                    IF Len(results) < SearchLimit THEN Len(results) ELSE SearchLimit)

\* The inner for-loop of the BFS of get_artist_connections_graph
RECURSIVE GraphVisit(_, _, _)
GraphVisit(collaborators, st, current_degree) ==
    IF collaborators = <<>> THEN st
    ELSE LET collaborator == Head(collaborators)
             st2 == IF collaborator \notin st.visited
                    THEN [st EXCEPT
                            !.visited = @ \cup {collaborator},
                            !.all_artists = @ \cup {collaborator},
                            !.queue = Append(@, <<collaborator, current_degree + 1>>),
                            !.enqueued = Append(@, <<collaborator, current_degree + 1>>)]
                    ELSE st
         IN  GraphVisit(Tail(collaborators), st2, current_degree)

\* GraphLoop expanding a dequeued vertex at the degree limit too (<= for <)
RECURSIVE GraphLoopInclusive(_, _, _)
GraphLoopInclusive(songs, degree, st) ==
    IF st.queue = <<>> THEN st
    ELSE LET current == Head(st.queue)
             st1 == [st EXCEPT !.queue = Tail(@)]
         IN  IF current[2] <= degree
             THEN GraphLoopInclusive(songs, degree,
                     GraphVisit(KeyList(get_direct_collaborators_raw(songs, current[1])),
                                [st1 EXCEPT !.expanded = Append(@, current)],
                                current[2]))
             ELSE GraphLoopInclusive(songs, degree, st1)

\* The while-loop of get_artist_connections_graph
RECURSIVE GraphLoop(_, _, _)
GraphLoop(songs, degree, st) ==
    IF st.queue = <<>> THEN st
    ELSE LET current == Head(st.queue)
             st1 == [st EXCEPT !.queue = Tail(@)]
         IN  IF current[2] < degree
             THEN GraphLoop(songs, degree,
                     GraphVisit(KeyList(get_direct_collaborators_raw(songs, current[1])),
                                [st1 EXCEPT !.expanded = Append(@, current)],
                                current[2]))
             ELSE GraphLoop(songs, degree, st1)

\* GraphRun that does not put the origin into all_artists
GraphRunWithoutOrigin(songs, artist_name, degree) ==
    LET name == Strip(artist_name)
    IN  GraphLoop(songs, degree,
                  [queue |-> <<<<name, 0>>>>, visited |-> {name}, all_artists |-> {},
                   enqueued |-> <<<<name, 0>>>>, expanded |-> <<>>])

\* The BFS of get_artist_connections_graph from its initial queue
GraphRun(songs, artist_name, degree) ==
    LET name == Strip(artist_name)
    IN  GraphLoop(songs, degree,
                  [queue |-> <<<<name, 0>>>>, visited |-> {name}, all_artists |-> {name},
                   enqueued |-> <<<<name, 0>>>>, expanded |-> <<>>])

\* The pair left in the order of the edge loop
UnsortedPair(artist, collaborator) == <<artist, collaborator>>

\* tuple(sorted([artist, collaborator]))
SortedPair(artist, collaborator) ==
    IF StrLess(collaborator, artist) THEN <<collaborator, artist>>
    ELSE <<artist, collaborator>>

\* for collaborator, count in connections.items(): ... edges.append(...)
RECURSIVE EdgeVisit(_, _, _, _)
EdgeVisit(items, artist, all_artists, acc) ==
    IF items = <<>> THEN acc
    ELSE LET collaborator == Head(items)[1]
             count == Head(items)[2]
             pair == SortedPair(artist, collaborator)
             acc2 == IF collaborator \in all_artists /\ pair \notin acc.processed_pairs
                     THEN [processed_pairs |-> acc.processed_pairs \cup {pair},
                           edges |-> Append(acc.edges,
                               [source |-> pair[1], target |-> pair[2], weight |-> count,
                                name |-> pair[1] \o <<" ", "-", " ">> \o pair[2]])]
                     ELSE acc
         IN  EdgeVisit(Tail(items), artist, all_artists, acc2)

\* for artist in all_artists: ... (the edge loop), iterating the set in `order`
RECURSIVE EdgeLoop(_, _, _, _)
EdgeLoop(songs, order, all_artists, acc) ==
    IF order = <<>> THEN acc
    ELSE EdgeLoop(songs, Tail(order), all_artists,
                  EdgeVisit(get_direct_collaborators_raw(songs, Head(order)),
                            Head(order), all_artists, acc))

\* The iteration orders a set can have
SetOrders(S) ==
    {o \in [1..Cardinality(S) -> S] : \A i, j \in DOMAIN o : i # j => o[i] # o[j]}

\* get_artist_connections_graph; `order` is the iteration order of all_artists
get_artist_connections_graph(songs, artist_name, degree, order) ==
    LET all_artists == GraphRun(songs, artist_name, degree).all_artists
    IN  [nodes |-> [i \in 1..Len(order) |->
                       [id |-> order[i], name |-> order[i],
                        degree |-> Len(get_direct_collaborators_raw(songs, order[i]))]],
         edges |-> EdgeLoop(songs, order, all_artists,
                            [processed_pairs |-> {}, edges |-> <<>>]).edges]

-----------------------------------------------------------------------------
(* backend/scripts/data_processor.py: DataProcessor *)

\* The EXCEPTIONS set of _extract_artists
EXCEPTIONS ==
    { <<"T", "y", "l", "e", "r", ",", " ", "t", "h", "e", " ", "C", "r", "e", "a", "t", "o", "r">>,
      <<"T", "y", "l", "e", "r", ",", " ", "T", "h", "e", " ", "C", "r", "e", "a", "t", "o", "r">>,
      <<"J", "o", "h", "n", " ", "S", "c", "o", "t", "t", " ", "T", "r", "o", "t", "t", "e", "r", " ", "&", " ", "H", "i", "s", " ", "O", "r", "c", "h", "e", "s", "t", "r", "a">>,
      <<"R", "a", "l", "p", "h", " ", "C", "a", "r", "m", "i", "c", "h", "a", "e", "l", " ", "O", "r", "c", "h", "e", "s", "t", "r", "a", " ", "a", "n", "d", " ", "C", "h", "o", "r", "u", "s">>,
      <<"A", "C", "/", "D", "C">>,
      <<"E", "a", "r", "t", "h", ",", " ", "W", "i", "n", "d", " ", "&", " ", "F", "i", "r", "e">> }

\* "N/A"
NotApplicable == <<"N", "/", "A">>

\* delimiters = [',', '&', '/', ' x ', ' with ', ' Featuring ']
delimiters ==
    << <<",">>, <<"&">>, <<"/">>, <<" ", "x", " ">>,
       <<" ", "w", "i", "t", "h", " ">>,
       <<" ", "F", "e", "a", "t", "u", "r", "i", "n", "g", " ">> >>

\* str(idx) for the indices enumerate() can give
Digit(idx) == AsciiOrder[Ord("0") + idx]

\* token = f"__EXC_{idx}__"
Token(idx) == <<"_", "_", "E", "X", "C", "_">> \o <<Digit(idx)>> \o <<"_", "_">>

\* re.subn(re.escape(exc), token, s)[0]: every leftmost non-overlapping
\* occurrence of exc replaced by token
RECURSIVE ReplaceAll(_, _, _)
ReplaceAll(s, exc, token) ==
    IF s = <<>> THEN <<>>
    ELSE IF MatchAt(s, exc, 1)
         THEN token \o ReplaceAll(SubSeq(s, Len(exc) + 1, Len(s)), exc, token)
         ELSE <<Head(s)>> \o ReplaceAll(Tail(s), exc, token)

\* The loop `for idx, exc in enumerate(EXCEPTIONS)`, from position idx + 1 of
\* the iteration order on; acc is [tokenized, token_map].
RECURSIVE Tokenize(_, _, _)
Tokenize(order, idx, acc) ==
    IF idx >= Len(order) THEN acc
    ELSE LET exc == order[idx + 1]
             token == Token(idx)
             n_positive == Contains(acc.tokenized, exc)
         IN  Tokenize(order, idx + 1,
                [tokenized |-> ReplaceAll(acc.tokenized, exc, token),
                 token_map |-> IF n_positive THEN Put(acc.token_map, token, exc)
                               ELSE acc.token_map])

\* part.split(delim)
RECURSIVE SplitFrom(_, _, _)
SplitFrom(s, delim, current) ==
    IF s = <<>> THEN <<current>>
    ELSE IF MatchAt(s, delim, 1)
         THEN <<current>> \o SplitFrom(SubSeq(s, Len(delim) + 1, Len(s)), delim, <<>>)
         ELSE SplitFrom(Tail(s), delim, Append(current, Head(s)))

Split(s, delim) == SplitFrom(s, delim, <<>>)

\* for delim in delimiters: temp = [piece for part in temp for piece in part.split(delim)]
RECURSIVE SplitAll(_, _)
SplitAll(temp, delims) ==
    IF delims = <<>> THEN temp
    ELSE SplitAll(Flatten([i \in 1..Len(temp) |-> Split(temp[i], Head(delims))]),
                  Tail(delims))

\* The restore loop without a = a.strip()
RestoreUnstripped(temp, token_map) ==
    {IF HasKey(token_map, temp[i]) THEN Get(token_map, temp[i]) ELSE temp[i] :
        i \in {j \in 1..Len(temp) : temp[j] # <<>>}}

\* The restore loop of split_artists
Restore(temp, token_map) ==
    {IF HasKey(token_map, Strip(temp[i])) THEN Get(token_map, Strip(temp[i]))
     ELSE Strip(temp[i]) : i \in {j \in 1..Len(temp) : Strip(temp[j]) # <<>>}}

\* split_artists (every csv field is a str)
split_artists(s, order) ==
    IF s = NotApplicable THEN {}
    ELSE LET t == Tokenize(order, 0, [tokenized |-> Strip(s), token_map |-> <<>>])
         IN  Restore(SplitAll(<<t.tokenized>>, delimiters), t.token_map)

\* _extract_artists
extract_artists(artist_str, featured_str, order) ==
    split_artists(artist_str, order) \cup split_artists(featured_str, order)

\* sorted(artists)
RECURSIVE SortedStrings(_)
SortedStrings(S) ==
    IF S = {} THEN <<>>
    ELSE LET least == CHOOSE a \in S : \A b \in S \ {a} : StrLess(a, b)
         IN  <<least>> \o SortedStrings(S \ {least})

\* sep.join(parts)
RECURSIVE Join(_, _)
Join(parts, sep) ==
    IF parts = <<>> THEN <<>>
    ELSE IF Len(parts) = 1 THEN Head(parts)
    ELSE Head(parts) \o sep \o Join(Tail(parts), sep)

\* song_key = f"{title}/////{'&&&'.join(sorted(artists))}/////{position}"
song_key(title, artists, position) ==
    title \o <<"/", "/", "/", "/", "/">>
          \o Join(SortedStrings(artists), <<"&", "&", "&">>)
          \o <<"/", "/", "/", "/", "/">> \o position

\* UpdateArtist counting a pair only from its smaller name
UpdateArtistOneWay(collabs, artist, order) ==
    LET c1 == IF ~HasKey(collabs, artist) THEN Put(collabs, artist, <<>>) ELSE collabs
    IN  Put(c1, artist,
            Tally(Get(c1, artist), SelectSeq(order, LAMBDA other : StrLess(artist, other))))

\* The body of `for artist in artists` in _update_collaborations, the inner
\* loop iterating the same set in the same order
UpdateArtist(collabs, artist, order) ==
    LET c1 == IF ~HasKey(collabs, artist) THEN Put(collabs, artist, <<>>) ELSE collabs
    IN  Put(c1, artist,
            Tally(Get(c1, artist), SelectSeq(order, LAMBDA other : other # artist)))

\* _update_collaborations; `order` is the iteration order of the set artists
RECURSIVE UpdateFrom(_, _, _)
UpdateFrom(collabs, order, i) ==
    IF i > Len(order) THEN collabs
    ELSE UpdateFrom(UpdateArtist(collabs, order[i], order), order, i + 1)

update_collaborations(collabs, order) == UpdateFrom(collabs, order, 1)

\* validate_data that only logs an empty result
validate_data_lenient(collabs, songs) == TRUE

\* The two checks of _validate_data that raise ValueError
validate_data(collabs, songs) == collabs # <<>> /\ songs # <<>>

\* One iteration of `for row_num, row in enumerate(reader, 1)` in
\* _build_relationship_dicts; acc is [collaborations, songs_to_artists] and
\* `order` the iteration order of the extracted set.
process_row(acc, row, exc_order, order) ==
    IF Len(row) # 4 THEN acc
    ELSE LET position == row[1]
             title == row[2]
             artists == extract_artists(row[3], row[4], exc_order)
         IN  IF artists = {} THEN acc
             ELSE [songs_to_artists |->
                       Put(acc.songs_to_artists, song_key(title, artists, position), order),
                   collaborations |-> update_collaborations(acc.collaborations, order)]

\* What _extract_artists returns for a row (nothing for a malformed row)
RowArtists(row, exc_order) ==
    IF Len(row) # 4 THEN {} ELSE extract_artists(row[3], row[4], exc_order)

-----------------------------------------------------------------------------
(* Inputs of the builder *)

\* The source order of the EXCEPTIONS literal and its reverse
ExcSourceOrder ==
    << <<"T", "y", "l", "e", "r", ",", " ", "t", "h", "e", " ", "C", "r", "e", "a", "t", "o", "r">>,
       <<"T", "y", "l", "e", "r", ",", " ", "T", "h", "e", " ", "C", "r", "e", "a", "t", "o", "r">>,
       <<"J", "o", "h", "n", " ", "S", "c", "o", "t", "t", " ", "T", "r", "o", "t", "t", "e", "r", " ", "&", " ", "H", "i", "s", " ", "O", "r", "c", "h", "e", "s", "t", "r", "a">>,
       <<"R", "a", "l", "p", "h", " ", "C", "a", "r", "m", "i", "c", "h", "a", "e", "l", " ", "O", "r", "c", "h", "e", "s", "t", "r", "a", " ", "a", "n", "d", " ", "C", "h", "o", "r", "u", "s">>,
       <<"A", "C", "/", "D", "C">>,
       <<"E", "a", "r", "t", "h", ",", " ", "W", "i", "n", "d", " ", "&", " ", "F", "i", "r", "e">> >>

ExcOrders ==
    {ExcSourceOrder, [i \in 1..Len(ExcSourceOrder) |-> ExcSourceOrder[Len(ExcSourceOrder) + 1 - i]]}

MaxRows == 2

Positions == {<<"1">>, <<"2">>}
Titles == {<<"S">>}
MainFields ==
    { <<"X">>,
      <<"X", ",", " ", "Y">>,
      <<"Y", " ", "&", " ", "Z">>,
      <<"T", "y", "l", "e", "r", ",", " ", "t", "h", "e", " ", "C", "r", "e", "a", "t", "o", "r">>,
      <<"N", "/", "A">> }
FeaturedFields == { <<"N", "/", "A">>, <<"Y">>, <<>> }

\* The rows csv.reader can yield: well-formed ones and one with three columns
CsvRows ==
    {<<p, t, m, f>> : p \in Positions, t \in Titles, m \in MainFields, f \in FeaturedFields}
    \cup {<<<<"1">>, <<"S">>, <<"X">>>>}

\* initial_cleaner.py keeps one row per (track, artist, featured_artists)
CleanerKey(row) == IF Len(row) = 4 THEN <<row[2], row[3], row[4]>> ELSE row

-----------------------------------------------------------------------------
(* Values of the variables a specification does not use *)

BuildIdle ==
    /\ collaborations = <<>>
    /\ songs_to_artists = <<>>
    /\ rowsRead = <<>>
    /\ lastArtists = {}
    /\ excOrder = ExcSourceOrder

QueryIdle ==
    /\ dalSongs = <<>>
    /\ call = [op |-> "none"]
    /\ result = <<>>

StatusIdle ==
    /\ is_running = FALSE
    /\ current_step = ""
    /\ error = "None"
    /\ completed = FALSE
    /\ tasks = <<>>

DiskIdle ==
    /\ cleaned_csv = <<>>
    /\ files = <<>>
    /\ builds = 0
    /\ reader = [pc |-> "idle"]

ShrinkIdle ==
    /\ heap = <<>>
    /\ frame = [pc |-> "idle"]

-----------------------------------------------------------------------------
(* _extract_artists on its own: one call on a main and a featured field *)

\* Fields with exception names alone, beside a delimiter and beside other
\* words, and fields without any
ExtractFields ==
    { <<"T", "y", "l", "e", "r", ",", " ", "t", "h", "e", " ", "C", "r", "e", "a", "t", "o", "r">>,
      <<"X", " ", "&", " ", "T", "y", "l", "e", "r", ",", " ", "t", "h", "e", " ", "C", "r", "e", "a", "t", "o", "r">>,
      <<"A", "C", "/", "D", "C">>,
      <<"E", "a", "r", "t", "h", ",", " ", "W", "i", "n", "d", " ", "&", " ", "F", "i", "r", "e", " ", "W", "i", "t", "h", " ", "T", "h", "e", " ", "E", "m", "o", "t", "i", "o", "n", "s">>,
      <<"E", "a", "r", "t", "h", ",", " ", "W", "i", "n", "d", " ", "&", " ", "F", "i", "r", "e", " ", "F", "e", "a", "t", "u", "r", "i", "n", "g", " ", "X">>,
      <<" ", "X", " ", "x", " ", "Y", " ">>,
      <<"N", "/", "A">>,
      <<>> }

InitExtract ==
    /\ collaborations = <<>>
    /\ songs_to_artists = <<>>
    /\ rowsRead = <<>>
    /\ lastArtists = {}
    /\ excOrder \in ExcOrders
    /\ QueryIdle /\ StatusIdle /\ DiskIdle /\ ShrinkIdle

\* artists = self._extract_artists(artist_str, featured)
ExtractArtists ==
    /\ rowsRead = <<>>
    /\ \E artist_str \in ExtractFields, featured \in ExtractFields :
          /\ rowsRead' = << <<<<"1">>, <<"S">>, artist_str, featured>> >>
          /\ lastArtists' = extract_artists(artist_str, featured, excOrder)
    /\ UNCHANGED <<shrinkVars, collaborations, songs_to_artists, excOrder,
                   queryVars, statusVars, diskVars>>

NextExtract == ExtractArtists

SpecExtract == InitExtract /\ [][NextExtract]_vars

\* The names that splitting s on the delimiters gives
Fragments(s) ==
    LET parts == SplitAll(<<s>>, delimiters)
    IN  {Strip(parts[i]) : i \in DOMAIN parts} \ {<<>>}

\* C13: when an exception name appears verbatim in the main or the featured
\* field, _extract_artists returns that name as one artist and none of the
\* fragments that splitting it on a delimiter gives.
ExceptionNamesStayWhole ==
    \A r \in DOMAIN rowsRead : \A e \in EXCEPTIONS :
        (Contains(rowsRead[r][3], e) \/ Contains(rowsRead[r][4], e)) =>
            /\ e \in lastArtists
            /\ Fragments(e) \cap lastArtists = {}

\* This name holds a placeholder token __EXC_n__ of split_artists
HoldsPlaceholder(name) == \E idx \in 0..9 : Contains(name, Token(idx))

\* C27: split_artists restores every placeholder token after splitting: no
\* name that _extract_artists returns holds a token of the form __EXC_n__.
NoPlaceholderInNames ==
    \A name \in lastArtists : ~HoldsPlaceholder(name)

-----------------------------------------------------------------------------
(* The builder, row by row *)

InitBuild ==
    /\ collaborations = <<>>
    /\ songs_to_artists = <<>>
    /\ rowsRead = <<>>
    /\ lastArtists = {}
    /\ excOrder \in ExcOrders
    /\ QueryIdle /\ StatusIdle /\ DiskIdle /\ ShrinkIdle

\* One iteration of the row loop of _build_relationship_dicts
ProcessRow ==
    /\ Len(rowsRead) < MaxRows
    /\ \E row \in CsvRows :
          /\ \A i \in 1..Len(rowsRead) : CleanerKey(rowsRead[i]) # CleanerKey(row)
          /\ \E order \in SetOrders(RowArtists(row, excOrder)) :
                LET acc == process_row([collaborations |-> collaborations,
                                        songs_to_artists |-> songs_to_artists],
                                       row, excOrder, order)
                IN  /\ collaborations' = acc.collaborations
                    /\ songs_to_artists' = acc.songs_to_artists
                    /\ lastArtists' = RowArtists(row, excOrder)
                    /\ rowsRead' = Append(rowsRead, row)
    /\ UNCHANGED <<shrinkVars, excOrder, queryVars, statusVars, diskVars>>

NextBuild == ProcessRow

SpecBuild == InitBuild /\ [][NextBuild]_vars

-----------------------------------------------------------------------------
(* Claims about the builder *)

\* adjacency[a][b], 0 when there is no such entry
Weight(collabs, a, b) == GetOr(GetOr(collabs, a, <<>>), b, 0)

\* Every name of the adjacency map, as a key or as a collaborator
AdjacencyNames(collabs) ==
    Keys(collabs) \cup UNION {Keys(collabs[i][2]) : i \in DOMAIN collabs}

\* The entries of the song index that list both a and b
SongsWithBoth(songs, a, b) ==
    {i \in DOMAIN songs : a \in Range(songs[i][2]) /\ b \in Range(songs[i][2])}

\* C2: after any sequence of rows, for every two distinct artists a and b,
\* adjacency[a][b] is the number of entries of the song index that list both
\* a and b (a song repeated by several rows counts once).
WeightIsDistinctSongCount ==
    \A a, b \in AdjacencyNames(collaborations) \cup AllArtists(songs_to_artists) :
        a # b => Weight(collaborations, a, b)
                    = Cardinality(SongsWithBoth(songs_to_artists, a, b))

\* C3: after every row, B is a key of adjacency[A] iff A is a key of
\* adjacency[B], and then the two weights are equal and at least 1.
AdjacencySymmetric ==
    \A a, b \in AdjacencyNames(collaborations) :
        LET ab == HasKey(collaborations, a) /\ HasKey(Get(collaborations, a), b)
            ba == HasKey(collaborations, b) /\ HasKey(Get(collaborations, b), a)
        IN  /\ ab <=> ba
            /\ ab => /\ Weight(collaborations, a, b) = Weight(collaborations, b, a)
                     /\ Weight(collaborations, a, b) >= 1

\* C3 witness: two rows have been processed and some pair of artists was on both
AdjacencySymmetricWitness ==
    /\ Len(rowsRead) = 2
    /\ \E a, b \in AdjacencyNames(collaborations) :
          a # b /\ Weight(collaborations, a, b) = 2 /\ Weight(collaborations, b, a) = 2

-----------------------------------------------------------------------------
(* Claims about the song index *)

\* The rows read so far that wrote the song-index entry `key`
RowsWriting(key) ==
    {r \in DOMAIN rowsRead :
        /\ Len(rowsRead[r]) = 4
        /\ RowArtists(rowsRead[r], excOrder) # {}
        /\ song_key(rowsRead[r][2], RowArtists(rowsRead[r], excOrder), rowsRead[r][1]) = key}

\* A name with a character that is not whitespace and none around it that is
WellFormedName(a) == a # <<>> /\ Strip(a) = a

\* C14: after any rows, every song-index entry's artist list is, as a set, the
\* set _extract_artists returned for the row that wrote it last, has at least
\* one element and no duplicates, and no artist name of the song index or of
\* the adjacency map is empty, blank or padded with whitespace.
SongIndexHoldsExtractedSets ==
    /\ \A i \in DOMAIN songs_to_artists :
          LET key == songs_to_artists[i][1]
              artists == songs_to_artists[i][2]
          IN  /\ Len(artists) >= 1
              /\ \A j, k \in DOMAIN artists : artists[j] = artists[k] => j = k
              /\ RowsWriting(key) # {}
              /\ \A r \in RowsWriting(key) :
                    (\A q \in RowsWriting(key) : q <= r) =>
                        Range(artists) = RowArtists(rowsRead[r], excOrder)
    /\ \A a \in AllArtists(songs_to_artists) \cup AdjacencyNames(collaborations) :
          WellFormedName(a)

\* C14 witness: a row naming Y in both fields, after a comma and a blank in
\* the main one, has written an entry of two artists
SongIndexHoldsExtractedSetsWitness ==
    \E r \in DOMAIN rowsRead :
        /\ Len(rowsRead[r]) = 4
        /\ rowsRead[r][3] = <<"X", ",", " ", "Y">>
        /\ rowsRead[r][4] = <<"Y">>
        /\ \E i \in DOMAIN songs_to_artists :
              /\ r \in RowsWriting(songs_to_artists[i][1])
              /\ Len(songs_to_artists[i][2]) = 2

-----------------------------------------------------------------------------
(* The query engine: one request at a time against a loaded song index *)

MaxSongs == 3
MaxArtistsPerSong == 2
MaxDegree == 3

\* The artists of the small song indexes
QueryArtists == {<<"a">>, <<"b">>, <<"c">>, <<"a", " ", "b">>}

\* The names asked for: the artists, some of them padded, and a stranger
QueryNames ==
    {<<"a">>, <<" ", "a", " ">>, <<"a", " ", "b">>, <<" ", "a", " ", "b">>, <<"z">>}

\* list(artists) of a song: one to MaxArtistsPerSong distinct names in some order
ArtistLists ==
    UNION {SetOrders(S) :
             S \in {T \in SUBSET QueryArtists :
                       T # {} /\ Cardinality(T) <= MaxArtistsPerSong}}

\* The song index the builder leaves for rows numbered 1, 2, ... with these
\* artist lists
IndexOf(lists) ==
    [i \in 1..Len(lists) |->
        <<song_key(<<"S">>, Range(lists[i]), <<Digit(i)>>), lists[i]>>]

SmallIndexes ==
    {IndexOf(lists) : lists \in UNION {[1..n -> ArtistLists] : n \in 0..MaxSongs}}

InitQuery ==
    /\ dalSongs \in SmallIndexes
    /\ call = [op |-> "none"]
    /\ result = <<>>
    /\ BuildIdle /\ StatusIdle /\ DiskIdle /\ ShrinkIdle

Idle == call.op = "none"

\* DataAccessLayer.get_artist_connections(name, degree)
GetArtistConnections ==
    /\ Idle
    /\ \E name \in QueryNames, degree \in 1..MaxDegree :
          /\ call' = [op |-> "connections", name |-> name, degree |-> degree]
          /\ result' = get_artist_connections(dalSongs, name, degree)
    /\ UNCHANGED <<shrinkVars, dalSongs, buildVars, statusVars, diskVars>>

\* DataAccessLayer._get_direct_connections(name)
GetDirectConnections ==
    /\ Idle
    /\ \E name \in QueryNames :
          /\ call' = [op |-> "direct", name |-> name]
          /\ result' = get_direct_connections(dalSongs, name)
    /\ UNCHANGED <<shrinkVars, dalSongs, buildVars, statusVars, diskVars>>

\* DataAccessLayer.artist_exists(name)
ArtistExists ==
    /\ Idle
    /\ \E name \in QueryNames :
          /\ call' = [op |-> "exists", name |-> name]
          /\ result' = artist_exists(dalSongs, name)
    /\ UNCHANGED <<shrinkVars, dalSongs, buildVars, statusVars, diskVars>>

\* DataAccessLayer.get_artist_connections_graph(name, degree)
GetArtistConnectionsGraph ==
    /\ Idle
    /\ \E name \in QueryNames, degree \in 1..MaxDegree :
          \E order \in SetOrders(GraphRun(dalSongs, name, degree).all_artists) :
             /\ call' = [op |-> "graph", name |-> name, degree |-> degree,
                         order |-> order]
             /\ result' = get_artist_connections_graph(dalSongs, name, degree, order)
    /\ UNCHANGED <<shrinkVars, dalSongs, buildVars, statusVars, diskVars>>

\* The result has been handed to the caller
Return ==
    /\ ~Idle
    /\ call' = [op |-> "none"]
    /\ result' = <<>>
    /\ UNCHANGED <<shrinkVars, dalSongs, buildVars, statusVars, diskVars>>

NextQuery ==
    \/ GetArtistConnections
    \/ GetDirectConnections
    \/ ArtistExists
    \/ GetArtistConnectionsGraph
    \/ Return

SpecQuery == InitQuery /\ [][NextQuery]_vars

-----------------------------------------------------------------------------
(* Claims about neighbourhood queries *)

\* a and b appear together on some song of the index
CoAppear(songs, a, b) == a # b /\ SongsWithBoth(songs, a, b) # {}

\* The names at most k hops from a in the co-appearance graph
RECURSIVE Ball(_, _, _)
Ball(songs, a, k) ==
    IF k = 0 THEN {a}
    ELSE LET inner == Ball(songs, a, k - 1)
         IN  inner \cup {b \in AllArtists(songs) : \E c \in inner : CoAppear(songs, c, b)}

\* The hop distance from a to b, for b in Ball(songs, a, k)
Distance(songs, a, b, k) == CHOOSE n \in 0..k : b \in Ball(songs, a, n) /\
                                \A m \in 0..(n - 1) : b \notin Ball(songs, a, m)

\* An artist name is a trimmed string
IsArtistName(s) == Strip(s) = s

\* C1: for an artist A and d >= 1, get_artist_connections(A, d) returns
\* exactly the artists other than A at most d hops from A in the
\* co-appearance graph of the song index, each with its hop distance as degree.
ConnectionsAreTheBall ==
    (call.op = "connections" /\ IsArtistName(call.name)) =>
        /\ Keys(result) = Ball(dalSongs, call.name, call.degree) \ {call.name}
        /\ \A i \in DOMAIN result :
              result[i][2].degree
                 = Distance(dalSongs, call.name, result[i][1], call.degree)
        /\ \A i, j \in DOMAIN result : result[i][1] = result[j][1] => i = j

\* C1 witness: a query of degree 2 found an artist two hops away and left out
\* an artist of the index that is three hops away
ConnectionsAreTheBallWitness ==
    /\ call.op = "connections" /\ call.degree = 2 /\ IsArtistName(call.name)
    /\ \E i \in DOMAIN result : result[i][2].degree = 2
    /\ \E b \in AllArtists(dalSongs) :
          b \notin Ball(dalSongs, call.name, 2) /\ b \in Ball(dalSongs, call.name, 3)

\* C10: every lookup answers for a name s what it answers for s stripped of
\* leading and trailing whitespace, and artist_exists(s) is true iff strip(s)
\* is on some song of the index.
LookupsTrimTheName ==
    /\ call.op = "exists" =>
          /\ result = artist_exists(dalSongs, Strip(call.name))
          /\ result <=> Strip(call.name) \in AllArtists(dalSongs)
    /\ call.op = "direct" =>
          result = get_direct_connections(dalSongs, Strip(call.name))
    /\ call.op = "connections" =>
          result = get_artist_connections(dalSongs, Strip(call.name), call.degree)
    /\ call.op = "graph" =>
          result = get_artist_connections_graph(dalSongs, Strip(call.name),
                                                call.degree, call.order)

-----------------------------------------------------------------------------
(* The degree-1 shortcut *)

\* C20: get_artist_connections(A, 1) returns the collaborators and counts of
\* _get_direct_connections(A), and the same mapping, every entry of degree 1,
\* as _get_connections_bfs(A, 1).
DegreeOneShortcutAgrees ==
    (call.op = "connections" /\ call.degree = 1) =>
        LET bfs == get_connections_bfs(dalSongs, call.name, 1)
        IN  /\ result = get_direct_connections(dalSongs, call.name)
            /\ Range(result) = Range(bfs)
            /\ Len(result) = Len(bfs)
            /\ Cardinality(Keys(result)) = Len(result)
            /\ \A i \in DOMAIN result : result[i][2].degree = 1

\* C20 witness: a degree-1 query found a collaborator of two songs while a
\* further artist is two hops away
DegreeOneShortcutAgreesWitness ==
    /\ call.op = "connections" /\ call.degree = 1
    /\ \E i \in DOMAIN result : result[i][2].count = 2
    /\ \E b \in AllArtists(dalSongs) :
          b \notin Ball(dalSongs, Strip(call.name), 1) /\ b \in Ball(dalSongs, Strip(call.name), 2)

-----------------------------------------------------------------------------
(* get_artist_connections_graph and _get_connections_bfs: what they return *)

\* The ids of the vertices a graph result holds
NodeIds(graph) == {graph.nodes[i].id : i \in DOMAIN graph.nodes}

\* The edges of a graph result that join X and Y, in either direction
EdgesBetween(graph, X, Y) ==
    {i \in DOMAIN graph.edges : {graph.edges[i].source, graph.edges[i].target} = {X, Y}}

\* The number of songs of the index that credit both a and b
DirectWeight(songs, a, b) == Cardinality(SongsWithBoth(songs, a, b))

\* C21: in the result of subgraphWithinDegree every pair of returned vertices
\* that shares a song has exactly one edge, from the lesser name to the
\* greater, weighted with the number of shared songs; a pair that shares no
\* song has no edge, and every edge joins two returned vertices.
SubgraphEdgesAreThePairs ==
    call.op = "graph" =>
        LET nodes == NodeIds(result)
        IN  /\ \A X, Y \in nodes :
                  StrLess(X, Y) =>
                     LET w == DirectWeight(dalSongs, X, Y)
                         between == EdgesBetween(result, X, Y)
                     IN  IF w > 0
                         THEN /\ Cardinality(between) = 1
                              /\ \A i \in between :
                                    /\ result.edges[i].source = X
                                    /\ result.edges[i].target = Y
                                    /\ result.edges[i].weight = w
                         ELSE between = {}
            /\ \A i \in DOMAIN result.edges :
                  /\ result.edges[i].source \in nodes
                  /\ result.edges[i].target \in nodes
                  /\ StrLess(result.edges[i].source, result.edges[i].target)

\* C21 witness: a subgraph with an edge of weight 2 whose greater endpoint was
\* iterated first, and a returned vertex with a collaborator outside the
\* subgraph
SubgraphEdgesAreThePairsWitness ==
    /\ call.op = "graph"
    /\ \E i \in DOMAIN result.edges :
          /\ result.edges[i].weight = 2
          /\ \E j, k \in DOMAIN call.order :
                /\ j < k
                /\ call.order[j] = result.edges[i].target
                /\ call.order[k] = result.edges[i].source
    /\ \E X \in NodeIds(result), b \in AllArtists(dalSongs) \ NodeIds(result) :
          CoAppear(dalSongs, X, b)

\* The entry of the expansion log for the vertex that found N: the first
\* expanded vertex that shares a song with N
FirstDiscoverer(songs, expanded, N) ==
    expanded[CHOOSE i \in DOMAIN expanded :
                /\ CoAppear(songs, expanded[i][1], N)
                /\ \A j \in 1..(i - 1) : ~CoAppear(songs, expanded[j][1], N)]

\* C22: the count neighborsWithinDegree reports for N at degree k is the
\* number of songs N shares with the vertex of degree k - 1 whose expansion
\* found N first, not a sum over paths; at degree 1 it is directNeighbors(A)[N].
NeighborCountIsDiscovererWeight ==
    call.op = "connections" =>
        LET A == Strip(call.name)
            direct == get_direct_connections(dalSongs, call.name)
            expanded == BfsRun(dalSongs, call.name, call.degree).expanded
        IN  \A i \in DOMAIN result :
               LET N == result[i][1]
                   entry == result[i][2]
               IN  /\ entry.degree = 1 =>
                         /\ HasKey(direct, N)
                         /\ entry.count = Get(direct, N).count
                         /\ entry.count = DirectWeight(dalSongs, A, N)
                   /\ call.degree >= 2 =>
                         LET P == FirstDiscoverer(dalSongs, expanded, N)
                         IN  /\ P[2] = entry.degree - 1
                             /\ entry.count = DirectWeight(dalSongs, P[1], N)

\* C22 witness: a query of degree 2 or more found N, and a second expanded
\* vertex shares a song with N as well
NeighborCountIsDiscovererWeightWitness ==
    /\ call.op = "connections" /\ call.degree >= 2
    /\ LET expanded == BfsRun(dalSongs, call.name, call.degree).expanded
       IN  \E i \in DOMAIN result, q \in DOMAIN expanded :
              LET N == result[i][1]
                  P == FirstDiscoverer(dalSongs, expanded, N)
              IN  /\ expanded[q] # P
                  /\ CoAppear(dalSongs, expanded[q][1], N)
                  /\ result[i][2].count = DirectWeight(dalSongs, P[1], N)

\* No vertex occurs twice in a log of <<vertex, degree>> entries
LoggedOnce(log) == \A i, j \in DOMAIN log : i # j => log[i][1] # log[j][1]

\* Every vertex of the log is below this degree
LoggedBelow(log, degree) == \A i \in DOMAIN log : log[i][2] < degree

\* C26: a BFS run enqueues each vertex at most once, and computes the direct
\* neighbors of no vertex whose degree equals the degree limit; this holds for
\* neighborsWithinDegree with a limit of 2 or more and for subgraphWithinDegree.
BfsEnqueuesEachVertexOnce ==
    /\ (call.op = "connections" /\ call.degree >= 2) =>
          LET run == BfsRun(dalSongs, call.name, call.degree)
          IN  /\ LoggedOnce(run.enqueued)
              /\ LoggedOnce(run.expanded)
              /\ LoggedBelow(run.expanded, call.degree)
              /\ Keys(result) = Keys(run.enqueued) \ {Strip(call.name)}
    /\ call.op = "graph" =>
          LET run == GraphRun(dalSongs, call.name, call.degree)
          IN  /\ LoggedOnce(run.enqueued)
              /\ LoggedOnce(run.expanded)
              /\ LoggedBelow(run.expanded, call.degree)
              /\ NodeIds(result) = Keys(run.enqueued)

\* C26 witness: a subgraph run expanded two vertices, so the second met a
\* visited one, and left a vertex at the degree limit unexpanded although it
\* has a collaborator that was never visited
BfsEnqueuesEachVertexOnceWitness ==
    /\ call.op = "graph"
    /\ LET run == GraphRun(dalSongs, call.name, call.degree)
       IN  /\ Len(run.expanded) >= 2
           /\ \E i \in DOMAIN run.enqueued :
                 /\ run.enqueued[i][2] = call.degree
                 /\ \E b \in AllArtists(dalSongs) \ run.visited :
                       CoAppear(dalSongs, run.enqueued[i][1], b)

\* C28: the vertices subgraphWithinDegree(A, d) returns are trim(A) and the
\* keys of neighborsWithinDegree(A, d), each once; for a name no song credits
\* the subgraph is the origin alone, of degree 0 and without edges, and the
\* neighbor mapping is empty.
SubgraphNodesAreTheNeighbors ==
    call.op = "graph" =>
        LET A == Strip(call.name)
            neighbors == get_artist_connections(dalSongs, call.name, call.degree)
        IN  /\ NodeIds(result) = {A} \cup Keys(neighbors)
            /\ Cardinality(NodeIds(result)) = Len(result.nodes)
            /\ A \notin AllArtists(dalSongs) =>
                  /\ Len(result.nodes) = 1
                  /\ result.nodes[1].id = A
                  /\ result.nodes[1].degree = 0
                  /\ result.edges = <<>>
                  /\ neighbors = <<>>

\* C28 witness: a subgraph for a name with surrounding blanks that holds the
\* origin and two more vertices while a further artist lies beyond the degree
SubgraphNodesAreTheNeighborsWitness ==
    /\ call.op = "graph"
    /\ call.name # Strip(call.name)
    /\ Len(result.nodes) >= 3
    /\ AllArtists(dalSongs) \ NodeIds(result) # {}

-----------------------------------------------------------------------------
(* backend/app.py: the two artist endpoints, with the data service loaded *)

\* The degrees a caller may send: below, inside and above the accepted range
ApiDegrees == {0, 1, 2, 5, 6}

\* GET /api/artist/{artist_name}/connections
api_get_artist_connections(songs, artist_name, degree) ==
    IF degree < 1 THEN [status |-> 400, detail |-> "Degree must be at least 1", body |-> <<>>]
    ELSE IF degree > 5 THEN [status |-> 400, detail |-> "Degree cannot exceed 5", body |-> <<>>]
    ELSE LET connections == get_artist_connections(songs, artist_name, degree)
         IN  IF ~artist_exists(songs, artist_name)
             THEN [status |-> 404, detail |-> "Artist not found", body |-> <<>>]
             ELSE [status |-> 200, detail |-> "", body |-> connections]

\* GET /api/artist/{artist_name}/connections-graph; `order` is the iteration
\* order of the set of reachable artists
api_get_artist_connections_graph(songs, artist_name, degree, order) ==
    IF degree < 1 THEN [status |-> 400, detail |-> "Degree must be at least 1", body |-> <<>>]
    ELSE IF degree > 5 THEN [status |-> 400, detail |-> "Degree cannot exceed 5", body |-> <<>>]
    ELSE LET graph_data == get_artist_connections_graph(songs, artist_name, degree, order)
         IN  IF ~artist_exists(songs, artist_name)
             THEN [status |-> 404, detail |-> "Artist not found", body |-> <<>>]
             ELSE [status |-> 200, detail |-> "", body |-> graph_data]

ApiGetArtistConnections ==
    /\ Idle
    /\ \E name \in QueryNames, degree \in ApiDegrees :
          /\ call' = [op |-> "api_connections", name |-> name, degree |-> degree]
          /\ result' = api_get_artist_connections(dalSongs, name, degree)
    /\ UNCHANGED <<shrinkVars, dalSongs, buildVars, statusVars, diskVars>>

ApiGetArtistConnectionsGraph ==
    /\ Idle
    /\ \E name \in QueryNames, degree \in ApiDegrees :
          \E order \in IF degree \in 1..5
                       THEN SetOrders(GraphRun(dalSongs, name, degree).all_artists)
                       ELSE {<<>>} :
             /\ call' = [op |-> "api_graph", name |-> name, degree |-> degree]
             /\ result' = api_get_artist_connections_graph(dalSongs, name, degree, order)
    /\ UNCHANGED <<shrinkVars, dalSongs, buildVars, statusVars, diskVars>>

NextApi == ApiGetArtistConnections \/ ApiGetArtistConnectionsGraph \/ Return

SpecApi == InitQuery /\ [][NextApi]_vars

\* The artist a request names: the name as every traversal reads it
QueriedArtist == Strip(call.name)

\* C12: for a neighbours or subgraph request with a degree in 1..5, the caller
\* gets not-found iff the queried artist is on no song of the index; an artist
\* that is on the index with solo songs only gets a successful answer with no
\* neighbours.
NotFoundIffAbsent ==
    (call.op \in {"api_connections", "api_graph"} /\ call.degree \in 1..5) =>
        /\ result.status = 404 <=> QueriedArtist \notin AllArtists(dalSongs)
        /\ (/\ QueriedArtist \in AllArtists(dalSongs)
            /\ \A b \in AllArtists(dalSongs) : ~CoAppear(dalSongs, QueriedArtist, b))
              => /\ result.status = 200
                 /\ call.op = "api_connections" => result.body = <<>>
                 /\ call.op = "api_graph" => result.body.edges = <<>>

\* What holds of the code: the same with the name compared as it was sent
NotFoundIffAbsentVerbatim ==
    (call.op \in {"api_connections", "api_graph"} /\ call.degree \in 1..5) =>
        result.status = 404 <=> call.name \notin AllArtists(dalSongs)

-----------------------------------------------------------------------------
(* Search, against song indexes with up to MaxIndexNames artists *)

MaxNameLen == 3
MaxIndexNames == 22

SearchAlphabet == {"a", "A", "b"}

\* Every name of one to MaxNameLen letters, in code-point order
PoolNames == SortedStrings(UNION {[1..n -> SearchAlphabet] : n \in 1..MaxNameLen})

\* n names of the pool: every step-th one from position start on
Pick(start, step, n) ==
    {PoolNames[start + step * t] :
        t \in {u \in 0..(n - 1) : start + step * u <= Len(PoolNames)}}

\* One solo song per name
SoloIndex(names) ==
    LET order == SortedStrings(names)
    IN  [i \in 1..Len(order) |->
            <<song_key(<<"S">>, {order[i]}, <<"1">>), <<order[i]>>>>]

SearchIndexes ==
    {SoloIndex(Pick(start, step, n)) :
        start \in 1..Len(PoolNames), step \in 1..2, n \in 0..MaxIndexNames}

\* Queries that are no artist's name: padded, blank, empty
OtherQueries == {<<" ", "a">>, <<"a", " ">>, <<" ">>, <<>>}

InitSearch ==
    /\ dalSongs \in SearchIndexes
    /\ call = [op |-> "none"]
    /\ result = <<>>
    /\ BuildIdle /\ StatusIdle /\ DiskIdle /\ ShrinkIdle

\* DataAccessLayer.search_artists(query)
SearchArtists ==
    /\ Idle
    /\ \E query \in AllArtists(dalSongs) \cup OtherQueries
                      \cup {<<"a">>, <<"A">>, <<"b">>, <<"a", "B">>} :
          /\ call' = [op |-> "search", name |-> query]
          /\ result' = search_artists(dalSongs, query)
    /\ UNCHANGED <<shrinkVars, dalSongs, buildVars, statusVars, diskVars>>

NextSearch == SearchArtists \/ Return

SpecSearch == InitSearch /\ [][NextSearch]_vars

\* The names of the index that contain q, case-insensitively
Matches(songs, q) == {a \in AllArtists(songs) : Contains(Lower(a), Lower(q))}

\* 0 for an exact case-insensitive match, 1 for a prefix match, 2 otherwise
Tier(a, q) ==
    IF Lower(a) = Lower(q) THEN 0
    ELSE IF StartsWith(Lower(a), Lower(q)) THEN 1 ELSE 2

\* a is ranked before b for the query q
RankedBefore(a, b, q) ==
    Tier(a, q) < Tier(b, q) \/ (Tier(a, q) = Tier(b, q) /\ StrLess(a, b))

\* C8: for every artist name N of the song index, search(N) returns a list
\* whose first element is N.
ExactNameComesFirst ==
    (call.op = "search" /\ call.name \in AllArtists(dalSongs)) =>
        (result # <<>> /\ result[1] = call.name)

\* C8 as amended: the first element of search(N) equals N ignoring case and is
\* the least, in code-point order, of the index names that do; so it is N itself
\* when no other artist differs from N only in letter case.
ExactNameComesFirstIgnoringCase ==
    (call.op = "search" /\ call.name \in AllArtists(dalSongs)) =>
        /\ result # <<>>
        /\ Lower(result[1]) = Lower(call.name)
        /\ \A a \in AllArtists(dalSongs) :
              Lower(a) = Lower(call.name) => ~StrLess(a, result[1])
        /\ (\A a \in AllArtists(dalSongs) : Lower(a) = Lower(call.name) => a = call.name)
              => result[1] = call.name

\* C8 witness: an artist of the index was searched by name, no other artist
\* differs from it only in case, and other names that sort before it matched too
ExactNameComesFirstWitness ==
    /\ call.op = "search" /\ call.name \in AllArtists(dalSongs)
    /\ \A a \in AllArtists(dalSongs) : Lower(a) = Lower(call.name) => a = call.name
    /\ result # <<>> /\ result[1] = call.name
    /\ \E i \in DOMAIN result : StrLess(result[i], call.name)

\* C9: for a non-blank query q, search(q) is the first min(20, n) of the n
\* distinct index names containing q case-insensitively, ordered by tier and by
\* name within a tier; for an empty or whitespace-only query it is empty.
SearchIsRankedPrefix ==
    call.op = "search" =>
        IF Strip(call.name) = <<>> THEN result = <<>>
        ELSE LET M == Matches(dalSongs, call.name)
                 n == Cardinality(M)
             IN  /\ Len(result) = IF n < 20 THEN n ELSE 20
                 /\ Range(result) \subseteq M
                 /\ \A i, j \in DOMAIN result :
                       i < j => RankedBefore(result[i], result[j], call.name)
                 /\ \A m \in M \ Range(result) : \A i \in DOMAIN result :
                       RankedBefore(result[i], m, call.name)

\* C9 witness: more than 20 names matched, of all three tiers, and 20 came back
SearchIsRankedPrefixWitness ==
    /\ call.op = "search"
    /\ Cardinality(Matches(dalSongs, call.name)) > 20
    /\ Len(result) = 20
    /\ \A t \in 0..2 : \E a \in Matches(dalSongs, call.name) : Tier(a, call.name) = t

\* C11: search(q) returns the same list as search(q stripped of leading and
\* trailing whitespace).
SearchTrimsTheQuery ==
    call.op = "search" => result = search_artists(dalSongs, Strip(call.name))

-----------------------------------------------------------------------------
(* backend/app.py: the refresh, and data_processor.py writing its two files *)

MaxTriggers == 3
MaxOverlap == 2

\* ProcessingConfig.collaborations_output and .songs_output, in the order
\* process_data saves them
OutputPaths == <<"collaborations.json", "songs_to_artists.json">>

\* path.with_suffix(f"{path.suffix}.backup")
BackupOf(path) ==
    IF path = "collaborations.json" THEN "collaborations.json.backup"
    ELSE "songs_to_artists.json.backup"

Paths == Range(OutputPaths) \cup {BackupOf(OutputPaths[k]) : k \in DOMAIN OutputPaths}

Missing == [state |-> "missing", build |-> 0]

\* _build_relationship_dicts over a whole file; each row's set is iterated in
\* sorted order here, which does not change what is empty
RECURSIVE BuildFrom(_, _, _)
BuildFrom(acc, rows, exc_order) ==
    IF rows = <<>> THEN acc
    ELSE BuildFrom(process_row(acc, Head(rows), exc_order,
                               SortedStrings(RowArtists(Head(rows), exc_order))),
                   Tail(rows), exc_order)

build_relationship_dicts(rows, exc_order) ==
    BuildFrom([collaborations |-> <<>>, songs_to_artists |-> <<>>], rows, exc_order)

\* What initial_cleaner.py can leave in cleaned.csv: a row without artists, or
\* a collaboration and a solo song
CsvInputs ==
    { << <<<<"1">>, <<"S">>, <<"N", "/", "A">>, <<"N", "/", "A">>>> >>,
      << <<<<"1">>, <<"S">>, <<"X">>, <<"Y">>>>,
         <<<<"2">>, <<"T">>, <<"X">>, <<"N", "/", "A">>>> >> }

\* The build data_processor.py makes of the current cleaned.csv
CurrentBuild == build_relationship_dicts(cleaned_csv, excOrder)

InitRefresh ==
    /\ is_running = FALSE
    /\ current_step = ""
    /\ error = "None"
    /\ completed = FALSE
    /\ tasks = <<>>
    /\ cleaned_csv = <<>>
    /\ files = [p \in Paths |-> Missing]
    /\ builds = 0
    /\ reader = [pc |-> "idle", data |-> Missing, songs |-> Missing, snapshot |-> FALSE]
    /\ BuildIdle /\ QueryIdle /\ ShrinkIdle

NewTask ==
    [pc |-> "set_running", dp |-> <<"none", 0>>, build |-> 0, exc |-> "none", ran |-> <<>>]

\* The scripts of update_data_task, in the order of its run_script calls
Scripts == <<"scraper.py", "initial_cleaner.py", "data_processor.py">>

\* tasks[i].ran only records the run_script calls of task i and how each ended
Ran(i, script, how) == Append(tasks[i].ran, <<script, how>>)

\* update_data, answering 409
UpdateDataRejected ==
    /\ is_running
    /\ UNCHANGED vars

\* The accepted triggers whose background task has not finished
Unfinished == {i \in DOMAIN tasks : tasks[i].pc # "done"}

\* update_data, accepting: reset the status and add the background task
UpdateData ==
    /\ ~is_running
    /\ Len(tasks) < MaxTriggers
    /\ Cardinality(Unfinished) < MaxOverlap
    /\ completed' = FALSE
    /\ error' = "None"
    /\ tasks' = Append(tasks, NewTask)
    /\ UNCHANGED <<shrinkVars, is_running, current_step, diskVars, buildVars, queryVars>>

\* The same, from a client that sends no trigger between an accepted one and
\* the start of its background task
UpdateDataSerial ==
    /\ \A i \in DOMAIN tasks : tasks[i].pc # "set_running"
    /\ UpdateData

At(i, pc) == tasks[i].pc = pc

Goto(i, pc) == tasks' = [tasks EXCEPT ![i].pc = pc]

\* update_status.is_running = True
SetRunning(i) ==
    /\ At(i, "set_running")
    /\ is_running' = TRUE
    /\ Goto(i, "clear_error")
    /\ UNCHANGED <<shrinkVars, current_step, error, completed,
                   diskVars, buildVars, queryVars>>

\* update_status.error = None
ClearError(i) ==
    /\ At(i, "clear_error")
    /\ error' = "None"
    /\ Goto(i, "clear_completed")
    /\ UNCHANGED <<shrinkVars, is_running, current_step, completed,
                   diskVars, buildVars, queryVars>>

\* update_status.completed = False
ClearCompleted(i) ==
    /\ At(i, "clear_completed")
    /\ completed' = FALSE
    /\ Goto(i, "step_scrape")
    /\ UNCHANGED <<shrinkVars, is_running, current_step, error,
                   diskVars, buildVars, queryVars>>

\* update_status.current_step = ... before a script or at the end
SetStep(i) ==
    /\ \E t \in { <<"step_scrape", "Scraping Billboard data...", "run_scrape">>,
                  <<"step_clean", "Cleaning data...", "run_clean">>,
                  <<"step_done", "Update completed successfully", "set_completed">> } :
          /\ At(i, t[1])
          /\ current_step' = t[2]
          /\ Goto(i, t[3])
    /\ UNCHANGED <<shrinkVars, is_running, error, completed,
                   diskVars, buildVars, queryVars>>

\* RunScraper with an exception of the script swallowed: the task goes on
RunScraperSwallowing(i) ==
    /\ At(i, "run_scrape")
    /\ \/ tasks' = [tasks EXCEPT ![i].pc = "step_clean",
                                 ![i].ran = Ran(i, Scripts[1], "returned")]
       \/ \E exc \in {"CalledProcessError", "FileNotFoundError"} :
             tasks' = [tasks EXCEPT ![i].pc = "step_clean", ![i].exc = exc,
                                    ![i].ran = Ran(i, Scripts[1], "raised")]
    /\ UNCHANGED <<shrinkVars, is_running, current_step, error, completed,
                   diskVars, buildVars, queryVars>>

\* run_script("scraper.py"): returns, raises CalledProcessError, or raises
\* FileNotFoundError
RunScraper(i) ==
    /\ At(i, "run_scrape")
    /\ \/ tasks' = [tasks EXCEPT ![i].pc = "step_clean",
                                 ![i].ran = Ran(i, Scripts[1], "returned")]
       \/ \E exc \in {"CalledProcessError", "FileNotFoundError"} :
             tasks' = [tasks EXCEPT ![i].pc = "set_error", ![i].exc = exc,
                                    ![i].ran = Ran(i, Scripts[1], "raised")]
    /\ UNCHANGED <<shrinkVars, is_running, current_step, error, completed,
                   diskVars, buildVars, queryVars>>

\* run_script("initial_cleaner.py"): writes cleaned.csv and returns, or raises
RunCleaner(i) ==
    /\ At(i, "run_clean")
    /\ \/ /\ tasks' = [tasks EXCEPT ![i].pc = "step_process",
                                    ![i].ran = Ran(i, Scripts[2], "returned")]
          /\ cleaned_csv' \in CsvInputs
       \/ /\ \E exc \in {"CalledProcessError", "FileNotFoundError"} :
                tasks' = [tasks EXCEPT ![i].pc = "set_error", ![i].exc = exc,
                                       ![i].ran = Ran(i, Scripts[2], "raised")]
          /\ UNCHANGED cleaned_csv
    /\ UNCHANGED <<shrinkVars, is_running, current_step, error, completed,
                   files, builds, reader, buildVars, queryVars>>

\* update_status.current_step = "Processing collaborations..." and the start
\* of run_script("data_processor.py")
StartProcessor(i) ==
    /\ At(i, "step_process")
    /\ current_step' = "Processing collaborations..."
    /\ tasks' = [tasks EXCEPT ![i].pc = "run_process", ![i].dp = <<"build", 0>>,
                              ![i].ran = Ran(i, Scripts[3], "started")]
    /\ UNCHANGED <<shrinkVars, is_running, error, completed,
                   diskVars, buildVars, queryVars>>

\* The data_processor.py process of task i is at <<step, k>>: step is "build",
\* a step of _save_with_backup for output file k, or how the process ended
DpAt(i, step, k) == At(i, "run_process") /\ tasks[i].dp = <<step, k>>

\* The process of task i has ended this way
DpEnded(i, how) == tasks[i].dp[1] = how

\* process_data up to the first _save_with_backup: build, then validate
DpBuild(i) ==
    /\ DpAt(i, "build", 0)
    /\ IF validate_data(CurrentBuild.collaborations, CurrentBuild.songs_to_artists)
       THEN /\ tasks' = [tasks EXCEPT ![i].dp = <<"exists", 1>>, ![i].build = builds + 1]
            /\ builds' = builds + 1
       ELSE /\ tasks' = [tasks EXCEPT ![i].dp = <<"invalid", 0>>]
            /\ UNCHANGED builds
    /\ UNCHANGED <<shrinkVars, is_running, current_step, error, completed,
                   cleaned_csv, files, reader, buildVars, queryVars>>

\* _save_with_backup: if path.exists()
DpExists(i) ==
    /\ \E k \in DOMAIN OutputPaths :
          /\ DpAt(i, "exists", k)
          /\ tasks' = [tasks EXCEPT ![i].dp =
                          IF files[OutputPaths[k]].state # "missing"
                          THEN <<"rename", k>> ELSE <<"open", k>>]
    /\ UNCHANGED <<shrinkVars, is_running, current_step, error, completed,
                   diskVars, buildVars, queryVars>>

\* _save_with_backup: path.rename(backup_path), replacing an older backup;
\* FileNotFoundError when the file is gone by now
DpRename(i) ==
    /\ \E k \in DOMAIN OutputPaths :
          /\ DpAt(i, "rename", k)
          /\ IF files[OutputPaths[k]].state # "missing"
             THEN /\ files' = [files EXCEPT ![BackupOf(OutputPaths[k])] = files[OutputPaths[k]],
                                            ![OutputPaths[k]] = Missing]
                  /\ tasks' = [tasks EXCEPT ![i].dp = <<"open", k>>]
             ELSE /\ tasks' = [tasks EXCEPT ![i].dp = <<"raised", 0>>]
                  /\ UNCHANGED files
    /\ UNCHANGED <<shrinkVars, is_running, current_step, error, completed,
                   cleaned_csv, builds, reader, buildVars, queryVars>>

\* _save_with_backup: open(filepath, 'w') creates or truncates the file
DpOpen(i) ==
    /\ \E k \in DOMAIN OutputPaths :
          /\ DpAt(i, "open", k)
          /\ files' = [files EXCEPT ![OutputPaths[k]] =
                          [state |-> "partial", build |-> tasks[i].build]]
          /\ tasks' = [tasks EXCEPT ![i].dp = <<"dump", k>>]
    /\ UNCHANGED <<shrinkVars, is_running, current_step, error, completed,
                   cleaned_csv, builds, reader, buildVars, queryVars>>

\* _save_with_backup: json.dump and the close of the file; after the second
\* file process_data returns and the process exits with 0
DpDump(i) ==
    /\ \E k \in DOMAIN OutputPaths :
          /\ DpAt(i, "dump", k)
          /\ files' = [files EXCEPT ![OutputPaths[k]] =
                          [state |-> "complete", build |-> tasks[i].build]]
          /\ tasks' = [tasks EXCEPT ![i].dp =
                          IF k < Len(OutputPaths) THEN <<"exists", k + 1>> ELSE <<"exited", 0>>]
    /\ UNCHANGED <<shrinkVars, is_running, current_step, error, completed,
                   cleaned_csv, builds, reader, buildVars, queryVars>>

\* The process dies where it is (killed, disk full, power loss)
DpCrash(i) ==
    /\ At(i, "run_process")
    /\ tasks[i].dp[1] \in {"build", "exists", "rename", "open", "dump"}
    /\ tasks' = [tasks EXCEPT ![i].dp = <<"killed", 0>>]
    /\ UNCHANGED <<shrinkVars, is_running, current_step, error, completed,
                   diskVars, buildVars, queryVars>>

\* run_script("data_processor.py") returns, or raises CalledProcessError
ProcessorEnds(i) ==
    /\ At(i, "run_process")
    /\ \/ /\ DpEnded(i, "exited")
          /\ tasks' = [tasks EXCEPT ![i].pc = "step_done",
                                    ![i].ran[Len(Scripts)][2] = "returned"]
       \/ /\ tasks[i].dp[1] \in {"invalid", "raised", "killed"}
          /\ tasks' = [tasks EXCEPT ![i].pc = "set_error", ![i].exc = "CalledProcessError",
                                    ![i].ran[Len(Scripts)][2] = "raised"]
    /\ UNCHANGED <<shrinkVars, is_running, current_step, error, completed,
                   diskVars, buildVars, queryVars>>

\* update_status.completed = True
SetCompleted(i) ==
    /\ At(i, "set_completed")
    /\ completed' = TRUE
    /\ Goto(i, "finally")
    /\ UNCHANGED <<shrinkVars, is_running, current_step, error,
                   diskVars, buildVars, queryVars>>

\* error_msg of the two except clauses
ErrorMsg(exc) ==
    IF exc = "CalledProcessError" THEN "Script failed" ELSE "Unexpected error"

\* update_status.error = error_msg
SetError(i) ==
    /\ At(i, "set_error")
    /\ error' = ErrorMsg(tasks[i].exc)
    /\ Goto(i, "step_error")
    /\ UNCHANGED <<shrinkVars, is_running, current_step, completed,
                   diskVars, buildVars, queryVars>>

\* update_status.current_step = f"Error: {error_msg}"
SetErrorStep(i) ==
    /\ At(i, "step_error")
    /\ current_step' = "Error: " \o ErrorMsg(tasks[i].exc)
    /\ Goto(i, "finally")
    /\ UNCHANGED <<shrinkVars, is_running, error, completed,
                   diskVars, buildVars, queryVars>>

\* Finally leaving is_running as it is
FinallyStillRunning(i) ==
    /\ At(i, "finally")
    /\ Goto(i, "done")
    /\ UNCHANGED <<shrinkVars, is_running, current_step, error, completed,
                   diskVars, buildVars, queryVars>>

\* finally: update_status.is_running = False
Finally(i) ==
    /\ At(i, "finally")
    /\ is_running' = FALSE
    /\ Goto(i, "done")
    /\ UNCHANGED <<shrinkVars, current_step, error, completed,
                   diskVars, buildVars, queryVars>>

\* Some refresh has written both files completely
SomeRefreshSucceeded == \E i \in DOMAIN tasks : DpEnded(i, "exited")

\* DataAccessLayer.__init__: _load_data; it raises on a missing or invalid file
LoadData ==
    /\ reader.pc = "idle"
    /\ reader' = [pc |-> IF files[OutputPaths[1]].state = "complete"
                         THEN "load_songs" ELSE "failed",
                  data |-> files[OutputPaths[1]], songs |-> Missing,
                  snapshot |-> SomeRefreshSucceeded]
    /\ UNCHANGED <<shrinkVars, cleaned_csv, files, builds, statusVars, buildVars, queryVars>>

\* DataAccessLayer.__init__: _load_songs_to_artists
LoadSongs ==
    /\ reader.pc = "load_songs"
    /\ reader' = [reader EXCEPT !.pc = IF files[OutputPaths[2]].state = "complete"
                                       THEN "loaded" ELSE "failed",
                                !.songs = files[OutputPaths[2]]]
    /\ UNCHANGED <<shrinkVars, cleaned_csv, files, builds, statusVars, buildVars, queryVars>>

\* The service is started again
Restart ==
    /\ reader.pc \in {"loaded", "failed"}
    /\ reader' = [pc |-> "idle", data |-> Missing, songs |-> Missing, snapshot |-> FALSE]
    /\ UNCHANGED <<shrinkVars, cleaned_csv, files, builds, statusVars, buildVars, queryVars>>

TaskStep(i) ==
    \/ SetRunning(i) \/ ClearError(i) \/ ClearCompleted(i) \/ SetStep(i)
    \/ RunScraper(i) \/ RunCleaner(i) \/ StartProcessor(i)
    \/ DpBuild(i) \/ DpExists(i) \/ DpRename(i) \/ DpOpen(i) \/ DpDump(i) \/ DpCrash(i)
    \/ ProcessorEnds(i)
    \/ SetCompleted(i) \/ SetError(i) \/ SetErrorStep(i) \/ Finally(i)

Next ==
    \/ UpdateData
    \/ UpdateDataRejected
    \/ \E i \in DOMAIN tasks : TaskStep(i)

Spec == InitRefresh /\ [][Next]_vars

NextSerial ==
    \/ UpdateDataSerial
    \/ UpdateDataRejected
    \/ \E i \in DOMAIN tasks : TaskStep(i)
    \/ LoadData \/ LoadSongs \/ Restart

SpecSerial == InitRefresh /\ [][NextSerial]_vars

-----------------------------------------------------------------------------
(* Claims about the refresh *)

\* The background tasks that have begun to run and have not finished
Executing == {i \in DOMAIN tasks : tasks[i].pc \notin {"set_running", "done"}}

\* C4: at most one refresh is in flight: a trigger that arrives before the
\* refresh of an earlier accepted trigger has finished is rejected, so two
\* executions of update_data_task never overlap.
RefreshesNeverOverlap == Cardinality(Executing) <= 1

\* A file that holds the complete output of a validated build
Good(f) == f.state = "complete"

\* C5: from the first successful refresh on, whatever crashes later, each
\* output file or its .backup sibling holds a complete result of a build.
GoodCopySurvives ==
    SomeRefreshSucceeded =>
        \A k \in DOMAIN OutputPaths :
            Good(files[OutputPaths[k]]) \/ Good(files[BackupOf(OutputPaths[k])])

\* C6: a load of the two files that starts once a snapshot exists never finds
\* a file missing or partially written, and gets both files from one build.
ReaderSeesOneSnapshot ==
    reader.snapshot =>
        /\ reader.pc # "failed"
        /\ reader.pc = "loaded" => reader.data.build = reader.songs.build

\* The current cleaned.csv gives an empty adjacency map or an empty song index
EmptyBuild ==
    CurrentBuild.collaborations = <<>> \/ CurrentBuild.songs_to_artists = <<>>

\* C7: when the build is empty, process_data fails, and the step that builds
\* and validates leaves every output file and every backup as it was; the
\* failed process does nothing afterwards.
EmptyBuildTouchesNothing ==
    [][\A i \in DOMAIN tasks :
          /\ (DpAt(i, "build", 0) /\ EmptyBuild /\ tasks'[i].dp[1] \notin {"build", "killed"})
                => (tasks'[i].dp = <<"invalid", 0>> /\ files' = files)
          /\ DpEnded(i, "invalid") => tasks'[i].dp = tasks[i].dp]_vars

\* C7 witness: a refresh has left both files, and a later one has failed
\* validation on an empty build
EmptyBuildTouchesNothingWitness ==
    /\ \E i \in DOMAIN tasks : DpEnded(i, "invalid")
    /\ EmptyBuild
    /\ \A k \in DOMAIN OutputPaths : Good(files[OutputPaths[k]])

-----------------------------------------------------------------------------
(* Claims about the refresh status and the steps of a refresh *)

\* What GET /api/update-status shows, named as the refresh status it stands for
StatusShown ==
    CASE ~is_running /\ ~completed /\ error = "None" -> "idle"
      [] is_running /\ ~completed /\ error = "None" -> "running"
      [] ~is_running /\ completed /\ error = "None" -> "completed"
      [] ~is_running /\ ~completed /\ error # "None" -> "failed"
      [] OTHER -> "none"

\* The changes of the refresh status the specification defines
StatusChanges ==
    { <<"idle", "running">>, <<"running", "completed">>, <<"running", "failed">>,
      <<"completed", "running">>, <<"failed", "running">> }

\* C23: whenever the status query looks, the refresh status is idle, running,
\* completed or failed, and it changes only from idle to running, from running
\* to completed or failed, and from completed or failed back to running.
StatusIsOneOfFour ==
    /\ [](StatusShown \in {"idle", "running", "completed", "failed"})
    /\ [][StatusShown' # StatusShown =>
             <<StatusShown, StatusShown'>> \in StatusChanges]_vars

\* The run_script calls of task i so far follow the order of Scripts, and
\* every call but the last has returned
RanInOrder(i) ==
    LET ran == tasks[i].ran
    IN  /\ Len(ran) <= Len(Scripts)
        /\ \A k \in DOMAIN ran :
              /\ ran[k][1] = Scripts[k]
              /\ k < Len(ran) => ran[k][2] = "returned"

\* All three scripts of task i have run and returned
AllReturned(i) == tasks[i].ran = [k \in DOMAIN Scripts |-> <<Scripts[k], "returned">>]

\* C24: a refresh runs scrape, clean, process in this order, starts a step
\* only after the step before it returned, runs no step after one that
\* raised, and sets completed only when all three have returned.
StepsRunInOrder ==
    /\ [](\A i \in DOMAIN tasks : RanInOrder(i))
    /\ [][(completed' /\ ~completed) =>
             \E i \in DOMAIN tasks :
                /\ At(i, "set_completed")
                /\ tasks'[i].pc = "finally"
                /\ AllReturned(i)]_vars

\* C24 witness: one refresh has ended after its cleaner raised, without a run
\* of the processor, and a later one has set completed after its three scripts
StepsRunInOrderWitness ==
    /\ completed
    /\ \E i, j \in DOMAIN tasks :
          /\ At(i, "done")
          /\ tasks[i].ran = << <<Scripts[1], "returned">>, <<Scripts[2], "raised">> >>
          /\ At(j, "finally")
          /\ AllReturned(j)

\* A step of task i other than DpBuild.  The process can die where DpBuild
\* can happen, so this action is enabled in the same states as TaskStep(i).
TaskProgress(i) ==
    \/ SetRunning(i) \/ ClearError(i) \/ ClearCompleted(i) \/ SetStep(i)
    \/ RunScraper(i) \/ RunCleaner(i) \/ StartProcessor(i)
    \/ DpExists(i) \/ DpRename(i) \/ DpOpen(i) \/ DpDump(i) \/ DpCrash(i)
    \/ ProcessorEnds(i)
    \/ SetCompleted(i) \/ SetError(i) \/ SetErrorStep(i) \/ Finally(i)

\* The refresh as above, where the thread of a background task and the
\* process of a script are not left waiting forever: every run_script call
\* returns or raises, and the statements around it are executed
SpecSerialFair ==
    SpecSerial /\ \A i \in 1..MaxTriggers : WF_vars(i \in DOMAIN tasks /\ TaskProgress(i))

\* C25: every refresh that was started comes to its end, after a success or a
\* failure, and is_running, once true, becomes false again, so that update_data
\* accepts a trigger again.
RefreshAlwaysEnds ==
    /\ \A i \in 1..MaxTriggers :
          (i \in DOMAIN tasks) ~> (i \in DOMAIN tasks /\ At(i, "done"))
    /\ is_running ~> ~is_running

\* C25 witness: a refresh has failed and ended, is_running is false again, and
\* a later trigger has been accepted
RefreshAlwaysEndsWitness ==
    /\ ~is_running
    /\ Len(tasks) >= 2
    /\ At(1, "done") /\ tasks[1].exc # "none"
    /\ At(2, "set_running")

-----------------------------------------------------------------------------
(* networkx.Graph as visualize.py uses it *)

\* A graph is [nodes, edges]: the nodes in insertion order (the order
\* `for n in graph` and list(graph.nodes) give) and the weight of each edge,
\* an edge being the set of its endpoints ({n} for a self-loop).

number_of_nodes(g) == Len(g.nodes)

\* graph.degree[n]: the edges at n, a self-loop counting twice
degree_of(g, n) ==
    Cardinality({e \in DOMAIN g.edges : n \in e /\ e # {n}})
       + (IF {n} \in DOMAIN g.edges THEN 2 ELSE 0)

\* remove_node leaving the edges of the node in place
remove_node_keep_edges(g, n) ==
    [nodes |-> SelectSeq(g.nodes, LAMBDA m : m # n), edges |-> g.edges]

\* graph.remove_node(n): the node goes with every edge at it
remove_node(g, n) ==
    [nodes |-> SelectSeq(g.nodes, LAMBDA m : m # n),
     edges |-> [e \in {d \in DOMAIN g.edges : n \notin d} |-> g.edges[e]]]

\* graph.copy() handing back the graph itself
copy_alias(h, ref) == [heap |-> h, ref |-> ref]

\* graph.copy(): a new graph object with the same nodes, edges and weights
copy(h, ref) == [heap |-> Append(h, h[ref]), ref |-> Len(h) + 1]

-----------------------------------------------------------------------------
(* backend/scripts/visualize.py: shrink_graph_degree and shrink_graph_random *)

\* The loop `for n in new_graph` that fills degree and degree_dct
RECURSIVE DegreeLoop(_, _, _)
DegreeLoop(g, order, acc) ==
    IF order = <<>> THEN acc
    ELSE LET n == Head(order)
             deg_n == degree_of(g, n)
         IN  DegreeLoop(g, Tail(order),
                [degree |-> acc.degree \cup {deg_n},
                 degree_dct |->
                    IF ~HasKey(acc.degree_dct, deg_n)
                    THEN Put(acc.degree_dct, deg_n, <<n>>)
                    ELSE Put(acc.degree_dct, deg_n,
                             Append(Get(acc.degree_dct, deg_n), n))])

\* lst_degree sorted with the largest degree first
RECURSIVE lst_degree_descending(_)
lst_degree_descending(degree) ==
    IF degree = {} THEN <<>>
    ELSE LET most == CHOOSE d \in degree : \A e \in degree : e <= d
         IN  <<most>> \o lst_degree_descending(degree \ {most})

\* lst_degree = list(degree); lst_degree.sort()
RECURSIVE lst_degree(_)
lst_degree(degree) ==
    IF degree = {} THEN <<>>
    ELSE LET least == CHOOSE d \in degree : \A e \in degree : d <= e
         IN  <<least>> \o lst_degree(degree \ {least})

\* The test that takes a bucket whole, always true
bucket_fits_always(rem_vertices, reduction_goal) == TRUE

\* len(rem_vertices) <= reduction_goal
bucket_fits(rem_vertices, reduction_goal) == Len(rem_vertices) <= reduction_goal

-----------------------------------------------------------------------------
(* One call of a shrink function on a graph the caller holds *)

MaxVertices == 4
MaxEdges == 3

VertexNames == <<"a", "b", "c", "d", "e", "f">>
EdgeWeights == {1, 2}

\* The graphs of up to MaxVertices nodes with up to MaxEdges weighted edges,
\* self-loops among them.  The nodes were inserted in the order of
\* VertexNames; every other insertion order is one of these graphs renamed.
InputGraphs ==
    UNION {
      UNION { {[nodes |-> SubSeq(VertexNames, 1, n), edges |-> w] :
                  w \in [E -> EdgeWeights]} :
                E \in {F \in SUBSET {S \in SUBSET {VertexNames[i] : i \in 1..n} :
                                         Cardinality(S) \in {1, 2}} :
                          Cardinality(F) <= MaxEdges} } :
      n \in 0..MaxVertices }

\* The frame of a call that has not executed a statement yet
NewFrame(fn, g, limit) ==
    [fn |-> fn, pc |-> "copy", graph |-> 1, limit |-> limit, given |-> g,
     new_graph |-> 0, new_graph_size |-> 0, degree_dct |-> <<>>, lst_degree |-> <<>>,
     index |-> 0, reduction_goal |-> 0, rem_vertices |-> <<>>, k |-> 0, j |-> 0,
     ret |-> 0]

\* No call has been made yet
InitShrink ==
    /\ heap = <<>>
    /\ frame = [pc |-> "idle"]
    /\ BuildIdle /\ QueryIdle /\ StatusIdle /\ DiskIdle

Others == <<buildVars, queryVars, statusVars, diskVars>>

\* The caller holds a graph and calls one of the two functions on it
ShrinkCall ==
    /\ frame.pc = "idle"
    /\ \E g \in InputGraphs, limit \in 0..MaxVertices,
          fn \in {"shrink_graph_degree", "shrink_graph_random"} :
          /\ heap' = <<g>>
          /\ frame' = NewFrame(fn, g, limit)
    /\ UNCHANGED Others

\* new_graph = graph.copy()
ShrinkCopy ==
    /\ frame.pc = "copy"
    /\ LET c == copy(heap, frame.graph)
       IN  /\ heap' = c.heap
           /\ frame' = [frame EXCEPT !.new_graph = c.ref, !.pc = "size"]
    /\ UNCHANGED Others

\* new_graph_size = new_graph.number_of_nodes(); if new_graph_size <= limit:
\* return new_graph.  Otherwise on to the body of the function.
ShrinkWithinLimit ==
    /\ frame.pc = "size"
    /\ LET size == number_of_nodes(heap[frame.new_graph])
       IN  frame' = IF size <= frame.limit
                    THEN [frame EXCEPT !.new_graph_size = size,
                                       !.ret = frame.new_graph, !.pc = "returned"]
                    ELSE [frame EXCEPT !.new_graph_size = size,
                                       !.pc = IF frame.fn = "shrink_graph_degree"
                                              THEN "degrees" ELSE "goal"]
    /\ UNCHANGED <<heap, Others>>

\* shrink_graph_degree: degree, degree_dct, lst_degree, index and reduction_goal
DegreeBuckets ==
    /\ frame.pc = "degrees"
    /\ LET g == heap[frame.new_graph]
           acc == DegreeLoop(g, g.nodes, [degree |-> {}, degree_dct |-> <<>>])
       IN  frame' = [frame EXCEPT !.degree_dct = acc.degree_dct,
                                  !.lst_degree = lst_degree(acc.degree),
                                  !.index = 0,
                                  !.reduction_goal = frame.new_graph_size - frame.limit,
                                  !.pc = "while"]
    /\ UNCHANGED <<heap, Others>>

\* while reduction_goal > 0 and index < len(lst_degree): take the next bucket
WhileEnter ==
    /\ frame.pc = "while"
    /\ frame.reduction_goal > 0 /\ frame.index < Len(frame.lst_degree)
    /\ LET rem_vertices == Get(frame.degree_dct, frame.lst_degree[frame.index + 1])
       IN  frame' = IF bucket_fits(rem_vertices, frame.reduction_goal)
                    THEN [frame EXCEPT !.rem_vertices = rem_vertices, !.k = 0, !.pc = "for"]
                    ELSE [frame EXCEPT !.rem_vertices = rem_vertices, !.j = 0, !.pc = "inner"]
    /\ UNCHANGED <<heap, Others>>

\* The loop condition fails: return new_graph
WhileExit ==
    /\ frame.pc = "while"
    /\ ~(frame.reduction_goal > 0 /\ frame.index < Len(frame.lst_degree))
    /\ frame' = [frame EXCEPT !.ret = frame.new_graph, !.pc = "returned"]
    /\ UNCHANGED <<heap, Others>>

\* for vertex in rem_vertices: new_graph.remove_node(vertex)
ForRemove ==
    /\ frame.pc = "for"
    /\ frame.k < Len(frame.rem_vertices)
    /\ LET vertex == frame.rem_vertices[frame.k + 1]
       IN  /\ heap' = [heap EXCEPT ![frame.new_graph] = remove_node(@, vertex)]
           /\ frame' = [frame EXCEPT !.k = @ + 1]
    /\ UNCHANGED Others

\* reduction_goal -= len(rem_vertices); index += 1
ForDone ==
    /\ frame.pc = "for"
    /\ frame.k >= Len(frame.rem_vertices)
    /\ frame' = [frame EXCEPT !.reduction_goal = @ - Len(frame.rem_vertices),
                              !.index = @ + 1, !.pc = "while"]
    /\ UNCHANGED <<heap, Others>>

\* while reduction_goal > 0: new_graph.remove_node(rem_vertices[j]); j += 1;
\* reduction_goal -= 1
InnerRemove ==
    /\ frame.pc = "inner"
    /\ frame.reduction_goal > 0
    /\ LET vertex == frame.rem_vertices[frame.j + 1]
       IN  /\ heap' = [heap EXCEPT ![frame.new_graph] = remove_node(@, vertex)]
           /\ frame' = [frame EXCEPT !.j = @ + 1, !.reduction_goal = @ - 1]
    /\ UNCHANGED Others

\* The inner loop has met the quota
InnerDone ==
    /\ frame.pc = "inner"
    /\ frame.reduction_goal <= 0
    /\ frame' = [frame EXCEPT !.pc = "while"]
    /\ UNCHANGED <<heap, Others>>

\* shrink_graph_random: reduction_goal = new_graph.number_of_nodes() - limit
RandomGoal ==
    /\ frame.pc = "goal"
    /\ frame' = [frame EXCEPT
                    !.reduction_goal = number_of_nodes(heap[frame.new_graph]) - frame.limit,
                    !.pc = "random"]
    /\ UNCHANGED <<heap, Others>>

\* new_graph.remove_node(choice(list(new_graph.nodes))); reduction_goal -= 1
RandomRemove ==
    /\ frame.pc = "random"
    /\ frame.reduction_goal > 0
    /\ \E i \in 1..number_of_nodes(heap[frame.new_graph]) :
          LET vertex == heap[frame.new_graph].nodes[i]
          IN  /\ heap' = [heap EXCEPT ![frame.new_graph] = remove_node(@, vertex)]
              /\ frame' = [frame EXCEPT !.reduction_goal = @ - 1]
    /\ UNCHANGED Others

\* The loop of shrink_graph_random ends: return new_graph
RandomExit ==
    /\ frame.pc = "random"
    /\ frame.reduction_goal <= 0
    /\ frame' = [frame EXCEPT !.ret = frame.new_graph, !.pc = "returned"]
    /\ UNCHANGED <<heap, Others>>

\* The statements of the two functions
StepShrink ==
    \/ ShrinkCopy
    \/ ShrinkWithinLimit
    \/ DegreeBuckets
    \/ WhileEnter
    \/ WhileExit
    \/ ForRemove
    \/ ForDone
    \/ InnerRemove
    \/ InnerDone
    \/ RandomGoal
    \/ RandomRemove
    \/ RandomExit

NextShrink == ShrinkCall \/ StepShrink

SpecShrink == InitShrink /\ [][NextShrink]_vars

-----------------------------------------------------------------------------
(* Claims about the shrink functions *)

Called == frame.pc # "idle"
Returned == frame.pc = "returned"

\* The nodes of the graph handed in that the graph g no longer has
RemovedFrom(g) == Range(frame.given.nodes) \ Range(g.nodes)

\* A returned graph has min(|V(G)|, limit) nodes, all of them nodes of G
ReturnedCountIsMin ==
    Returned =>
        LET g == heap[frame.ret]
            n == number_of_nodes(frame.given)
        IN  /\ number_of_nodes(g) = IF n <= frame.limit THEN n ELSE frame.limit
            /\ Cardinality(Range(g.nodes)) = number_of_nodes(g)
            /\ Range(g.nodes) \subseteq Range(frame.given.nodes)

\* A call that has not returned has a statement to execute (building the
\* buckets has no precondition but its position)
NeverStuck ==
    (Called /\ ~Returned) => (frame.pc = "degrees" \/ ENABLED StepShrink)

\* The nodes of the graph the call is working on
WorkingNodes ==
    IF frame.new_graph = 0 THEN number_of_nodes(frame.given)
    ELSE number_of_nodes(heap[frame.new_graph])

\* A bound on the statements a call has left to execute, from its position,
\* the nodes left in the working graph and the buckets not yet visited
Variant ==
    LET n == number_of_nodes(frame.given)
        looping == frame.reduction_goal > 0 /\ frame.index < Len(frame.lst_degree)
        position ==
            CASE frame.pc = "copy"     -> 3 * n + 8
              [] frame.pc = "size"     -> 3 * n + 7
              [] frame.pc = "degrees"  -> 3 * n + 6
              [] frame.pc = "goal"     -> 3
              [] frame.pc = "random"   -> 2
              [] frame.pc = "while"    -> IF looping THEN 3 ELSE 1
              [] frame.pc = "for"      -> 2
              [] frame.pc = "inner"    -> 2
              [] frame.pc = "returned" -> 0
    IN  4 * WorkingNodes + 3 * (Len(frame.lst_degree) - frame.index) + position

\* C15: for every graph G and limit k >= 0, shrink_graph_degree(G, k) and
\* shrink_graph_random(G, k) terminate (a call is never stuck before it
\* returns and every statement lowers a natural-number bound on the statements
\* left), and the graph returned has exactly min(|V(G)|, k) nodes, all of them
\* nodes of G.
ShrinkReturnsMinNodes ==
    /\ [](ReturnedCountIsMin /\ NeverStuck /\ (Called => Variant >= 0))
    /\ [][Called => Variant' < Variant]_vars

\* C15 witness: shrink_graph_degree has returned after taking one bucket whole
\* and a part of the next
ShrinkReturnsMinNodesWitness ==
    /\ Returned /\ frame.fn = "shrink_graph_degree"
    /\ frame.index > 0 /\ frame.j > 0
    /\ frame.j < Len(frame.rem_vertices)

\* C16: the graph handed in is never modified, the graph returned is another
\* object, and for limit >= |V(G)| it has the nodes, edges and weights of G.
ShrinkWorksOnACopy ==
    /\ Called => heap[frame.graph] = frame.given
    /\ Returned =>
          /\ frame.ret # frame.graph
          /\ number_of_nodes(frame.given) <= frame.limit
                => heap[frame.ret] = frame.given

\* C16 witness: a call has returned a graph with fewer nodes and fewer edges
\* than the one handed in
ShrinkWorksOnACopyWitness ==
    /\ Returned
    /\ RemovedFrom(heap[frame.ret]) # {}
    /\ DOMAIN heap[frame.ret].edges # DOMAIN frame.given.edges
    /\ DOMAIN heap[frame.ret].edges # {}

\* C17: shrink_graph_degree(G, k) with k < |V(G)| removes no node whose degree
\* in G is greater than the degree in G of a node it keeps.
LowestDegreesGoFirst ==
    (Returned /\ frame.fn = "shrink_graph_degree"
              /\ frame.limit < number_of_nodes(frame.given)) =>
        \A v \in RemovedFrom(heap[frame.ret]) : \A w \in Range(heap[frame.ret].nodes) :
            degree_of(frame.given, v) <= degree_of(frame.given, w)

\* C17 witness: nodes of three different degrees, the lowest bucket removed
\* whole, a part of the second removed, the highest kept
LowestDegreesGoFirstWitness ==
    /\ Returned /\ frame.fn = "shrink_graph_degree"
    /\ Len(frame.lst_degree) >= 3
    /\ frame.index = 1 /\ frame.j > 0 /\ frame.j < Len(frame.rem_vertices)
    /\ \E v \in RemovedFrom(heap[frame.ret]) : \E w \in Range(heap[frame.ret].nodes) :
          degree_of(frame.given, v) < degree_of(frame.given, w)

\* C18: after every removal, and in the graph returned, every edge has both
\* its endpoints among the remaining nodes.
NoDanglingEdges ==
    (Called /\ frame.new_graph # 0) =>
        \A e \in DOMAIN heap[frame.new_graph].edges :
            e \subseteq Range(heap[frame.new_graph].nodes)

\* C18 witness: in the middle of a call, a node with edges has been removed and
\* edges remain
NoDanglingEdgesWitness ==
    /\ frame.pc \in {"for", "inner", "random"} /\ frame.reduction_goal > 0
    /\ \E v \in RemovedFrom(heap[frame.new_graph]) : degree_of(frame.given, v) > 0
    /\ DOMAIN heap[frame.new_graph].edges # {}

\* The step of the inner loop that removes v
InnerRemoves(v) == InnerRemove /\ v \notin Range(heap'[frame.new_graph].nodes)

\* C19: when the quota is smaller than the next bucket, which nodes of the
\* bucket go is an arbitrary choice: any node of the bucket may be the one
\* removed (so two runs on one graph and limit can return different node sets).
TieBreakIsArbitrary ==
    (frame.pc = "inner" /\ frame.j = 0) =>
        \A v \in Range(frame.rem_vertices) : ENABLED InnerRemoves(v)

=============================================================================
